---------------------------- MODULE Spec2Model ----------------------------
(***************************************************************************)
(* Hypothesis Evolution Cycle Engine of the AI co-scientist.               *)
(*                                                                         *)
(* The module models                                                       *)
(*   - the Population Store (ContextMemory, app/models.py) together with   *)
(*     its SQLite persistence (DatabaseManager, app/database.py),          *)
(*   - the two HTTP endpoints that drive cycles (/research_goal and        *)
(*     /run_cycle, app/api.py), each request being served by a worker      *)
(*     thread of the web framework,                                        *)
(*   - the cycle engine and the Elo rule of the supervisor.  The agents    *)
(*     module is not part of the sources at hand; those definitions        *)
(*     follow the written specification and say so in their comments.      *)
(*   - the similarity of two texts (app/utils.py) behind the proximity     *)
(*     stage, and the extraction of arXiv identifiers from a text          *)
(*     (tests/test_agents.py) with their link to a hypothesis.             *)
(*   - the manual link of a paper to a hypothesis (app/api.py) and the     *)
(*     retry loop of call_llm (app/utils.py).                              *)
(*                                                                         *)
(* Ratings are fixed-point numbers: one unit is 1/EloScale rating point,   *)
(* so the initial rating 1200.0 is 120000.                                 *)
(***************************************************************************)
EXTENDS Integers, Sequences, FiniteSets, TLC

VARIABLES
    stores,                 \* store handle -> ContextMemory object (or NoStore)
    db_hypotheses,          \* table hypotheses, rows in insertion order
    db_tournament_results,  \* table tournament_results: session -> its rows in order
    db_meta_reviews,        \* table meta_reviews: session -> its rows in order
    db_paper_references,    \* table hypothesis_paper_references, rows in insertion order
    next_session,           \* number of rows of table research_sessions
    global_context,         \* api.global_context: handle of the current store
    current_research_goal,  \* api.current_research_goal (NoGoal = None)
    threads,                \* request-handling threads of the web server
    collaborators           \* "reliable": every LLM call of the run is answered

vars == <<stores, db_hypotheses, db_tournament_results, db_meta_reviews,
          db_paper_references, next_session, global_context, current_research_goal, threads, collaborators>>

-----------------------------------------------------------------------------
(* Bounds of the model *)

MaxHistory == 3
MaxCycles == 2
MaxMatches == 3
TournamentSize == 3
MaxFailures == 1
MaxTokens == 3
MaxLinks == 3

(* Program constants *)

InitialElo == 120000
EloScale == 100
FixedOne == 10000
max_retries == 3
initial_retry_delay == 1
default_num_hypotheses == 3
default_elo_k_factor == 32
default_top_k_hypotheses == 2

-----------------------------------------------------------------------------
(* Value spaces *)

Sessions == {1, 2}
Handles == {0} \cup Sessions
Threads == {1, 2}
HIds == {1, 2}
Texts == {"t1", "t2"}
None == 0 - 1
NoStore == [none |-> TRUE]
NoGoal == [none |-> TRUE]
NoLink == [none |-> TRUE]
NoCall == [none |-> TRUE]

RECURSIVE SeqToSet(_)
SeqToSet(s) == IF s = <<>> THEN {} ELSE {Head(s)} \cup SeqToSet(Tail(s))

RECURSIVE ReverseSeq(_)
ReverseSeq(s) == IF s = <<>> THEN <<>> ELSE ReverseSeq(Tail(s)) \o <<Head(s)>>

Abs(x) == IF x < 0 THEN 0 - x ELSE x

RoundDiv(a, b) == (a + (b \div 2)) \div b

-----------------------------------------------------------------------------
(* Hypothesis (app/models.py) *)

\* Hypothesis.__init__ with is_active left false
Hypothesis_inactive(hypothesis_id, text) ==
    [hypothesis_id |-> hypothesis_id,
     text          |-> text,
     elo_score     |-> InitialElo,
     is_active     |-> FALSE,
     parent_ids    |-> <<>>]

\* Hypothesis.__init__ with the rating left at zero
Hypothesis_unrated(hypothesis_id, text) ==
    [hypothesis_id |-> hypothesis_id,
     text          |-> text,
     elo_score     |-> 0,
     is_active     |-> TRUE,
     parent_ids    |-> <<>>]

\* Hypothesis.__init__: a new hypothesis is active, rated 1200.0, no parents
Hypothesis(hypothesis_id, text) ==
    [hypothesis_id |-> hypothesis_id,
     text          |-> text,
     elo_score     |-> InitialElo,
     is_active     |-> TRUE,
     parent_ids    |-> <<>>]

\* ResearchGoal.__init__: every setting is stored as given, a setting that is
\* None falls back to the configured default; nothing is range-checked.
ResearchGoal(num_hypotheses, elo_k_factor, top_k_hypotheses) ==
    [num_hypotheses   |-> IF num_hypotheses = None
                          THEN default_num_hypotheses ELSE num_hypotheses,
     elo_k_factor     |-> IF elo_k_factor = None
                          THEN default_elo_k_factor ELSE elo_k_factor,
     top_k_hypotheses |-> IF top_k_hypotheses = None
                          THEN default_top_k_hypotheses ELSE top_k_hypotheses]

-----------------------------------------------------------------------------
(* Elo rule of the tournament.  The ranking agent is not among the sources;*)
(* the rule is the one the specification states:                           *)
(*     expected_A = 1 / (1 + 10^((rating_B - rating_A) / 400))             *)
(*     rating_A'  = rating_A + K * (actual_A - expected_A)                 *)
(* computed here in fixed point: probabilities in units of 1/FixedOne,     *)
(* ratings in units of 1/EloScale.                                         *)

\* largest rating difference (in rating units) the fixed-point power accepts
MaxEloDiff == 500 * EloScale

\* 10^(d / (400*EloScale)) in units of 1/FixedOne, for 0 <= d <= MaxEloDiff:
\* exp(y) with y = d*ln(10)/(400*EloScale), as (exp(y/8))^8, exp(y/8) by its
\* Taylor polynomial of degree 4.
Pow10Fixed(d) ==
    LET t  == RoundDiv(d * 7196, 1000 * EloScale)
        t2 == RoundDiv(t * t, FixedOne)
        t3 == RoundDiv(t2 * t, FixedOne)
        t4 == RoundDiv(t3 * t, FixedOne)
        e1 == FixedOne + t + RoundDiv(t2, 2) + RoundDiv(t3, 6) + RoundDiv(t4, 24)
        e2 == RoundDiv(e1 * e1, FixedOne)
        e4 == RoundDiv(e2 * e2, FixedOne)
    IN  RoundDiv(e4 * e4, FixedOne)

\* 10^((rating_B - rating_A)/400), also for a negative exponent
Pow10Diff(diff) ==
    LET d == IF Abs(diff) > MaxEloDiff THEN MaxEloDiff ELSE Abs(diff)
        p == Pow10Fixed(d)
    IN  IF diff >= 0 THEN p ELSE RoundDiv(FixedOne * FixedOne, p)

\* expected score of A against B, in units of 1/FixedOne
expected_score(rating_a, rating_b) ==
    RoundDiv(FixedOne * FixedOne, FixedOne + Pow10Diff(rating_b - rating_a))

\* K * (actual - expected) in rating units; the magnitude is rounded, the
\* sign is that of (actual - expected)
elo_delta(k, actual, expected) ==
    IF actual = 1
    THEN RoundDiv(k * EloScale * (FixedOne - expected), FixedOne)
    ELSE 0 - RoundDiv(k * EloScale * expected, FixedOne)

\* the new ratings of both sides of a decided match: <<new_elo1, new_elo2>>
update_elo(elo1, elo2, first_wins, k) ==
    LET expected1 == expected_score(elo1, elo2)
        expected2 == expected_score(elo2, elo1)
        actual1 == IF first_wins THEN 1 ELSE 0
        actual2 == IF first_wins THEN 0 ELSE 1
    IN  <<elo1 + elo_delta(k, actual1, expected1),
          elo2 + elo_delta(k, actual2, expected2)>>

-----------------------------------------------------------------------------
(* DatabaseManager (app/database.py).  The timestamps created_at and       *)
(* updated_at are not modelled; created_at only orders the rows, and the   *)
(* rows are kept in insertion order.  The tables tournament_results and    *)
(* meta_reviews are only ever read WHERE session_id = ?, so each is kept   *)
(* as the sequence of rows of every session.                               *)

HypothesisRow(hypothesis, session_id) ==
    [hypothesis_id |-> hypothesis.hypothesis_id,
     session_id    |-> session_id,
     text          |-> hypothesis.text,
     elo_score     |-> hypothesis.elo_score,
     is_active     |-> hypothesis.is_active,
     parent_ids    |-> hypothesis.parent_ids]

\* DatabaseManager.save_hypothesis: the row is looked up by hypothesis_id
\* alone (the column is UNIQUE over the whole table).  A row that exists is
\* updated in every column but session_id; otherwise a row is inserted.
save_hypothesis(rows, hypothesis, session_id) ==
    IF \E i \in 1..Len(rows) : rows[i].hypothesis_id = hypothesis.hypothesis_id
    THEN [i \in 1..Len(rows) |->
             IF rows[i].hypothesis_id = hypothesis.hypothesis_id
             THEN HypothesisRow(hypothesis, rows[i].session_id)
             ELSE rows[i]]
    ELSE Append(rows, HypothesisRow(hypothesis, session_id))

RowIds(rows) == {rows[i].hypothesis_id : i \in 1..Len(rows)}

RowToHypothesis(row) ==
    [hypothesis_id |-> row.hypothesis_id,
     text          |-> row.text,
     elo_score     |-> row.elo_score,
     is_active     |-> row.is_active,
     parent_ids    |-> row.parent_ids]

\* DatabaseManager.get_session_hypotheses: the rows of one session, newest
\* first, as Hypothesis objects
get_session_hypotheses(rows, session_id, active_only) ==
    LET InSession(row) == row.session_id = session_id
                          /\ (active_only => row.is_active)
        mine == ReverseSeq(SelectSeq(rows, InSession))
    IN  [i \in 1..Len(mine) |-> RowToHypothesis(mine[i])]

\* DatabaseManager.save_tournament_result: INSERT one row
db_save_tournament_result(table, session_id, iteration, result) ==
    [table EXCEPT ![session_id] = Append(@,
                 [session_id |-> session_id, iteration |-> iteration,
                  hypothesis1_id |-> result.hypothesis1_id,
                  hypothesis2_id |-> result.hypothesis2_id,
                  winner_id |-> result.winner_id,
                  old_elo1 |-> result.old_elo1, old_elo2 |-> result.old_elo2,
                  new_elo1 |-> result.new_elo1, new_elo2 |-> result.new_elo2])]

\* DatabaseManager.save_meta_review: INSERT one row
db_save_meta_review(table, session_id, iteration, critique, suggested_next_steps) ==
    [table EXCEPT ![session_id] = Append(@,
                 [session_id |-> session_id, iteration |-> iteration,
                  critique |-> critique,
                  suggested_next_steps |-> suggested_next_steps])]

-----------------------------------------------------------------------------
(* ContextMemory (app/models.py).  An operation reads and writes the store *)
(* object and, when the store has a session, the database; World is the    *)
(* part of the state the store operations work on.                         *)

World ==
    [stores                |-> stores,
     db_hypotheses         |-> db_hypotheses,
     db_tournament_results |-> db_tournament_results,
     db_meta_reviews       |-> db_meta_reviews,
     db_paper_references   |-> db_paper_references]

\* ContextMemory.__init__ with _load_session_data: an empty store at
\* iteration 0 that holds the hypotheses the database has for the session
\* (session_id 0 stands for None: nothing is loaded, nothing is persisted)
ContextMemory(rows, session_id) ==
    [session_id           |-> session_id,
     hypotheses           |-> IF session_id = 0 THEN <<>>
                              ELSE get_session_hypotheses(rows, session_id, FALSE),
     tournament_results   |-> <<>>,
     meta_review_feedback |-> <<>>,
     iteration_number     |-> 0]

HypothesisIds(store) ==
    {store.hypotheses[i].hypothesis_id : i \in 1..Len(store.hypotheses)}

\* position of an id in the dict of a store (0 when absent)
IndexOf(store, hypothesis_id) ==
    IF hypothesis_id \in HypothesisIds(store)
    THEN CHOOSE i \in 1..Len(store.hypotheses) :
             store.hypotheses[i].hypothesis_id = hypothesis_id
    ELSE 0

\* self.hypotheses[hypothesis.hypothesis_id] = hypothesis: a dict keeps the
\* position of a key that is assigned again and appends a new key
DictAssign(hypotheses, hypothesis) ==
    IF \E i \in 1..Len(hypotheses) :
           hypotheses[i].hypothesis_id = hypothesis.hypothesis_id
    THEN [i \in 1..Len(hypotheses) |->
             IF hypotheses[i].hypothesis_id = hypothesis.hypothesis_id
             THEN hypothesis ELSE hypotheses[i]]
    ELSE Append(hypotheses, hypothesis)

\* add_hypothesis with a list for the dict: every call appends
add_hypothesis_appending(w, h, hypothesis) ==
    LET store == w.stores[h]
        mem == [w EXCEPT !.stores[h].hypotheses = Append(@, hypothesis)]
    IN  IF store.session_id # 0
        THEN [mem EXCEPT !.db_hypotheses =
                  save_hypothesis(@, hypothesis, store.session_id)]
        ELSE mem

\* ContextMemory.add_hypothesis
add_hypothesis(w, h, hypothesis) ==
    LET store == w.stores[h]
        mem == [w EXCEPT !.stores[h].hypotheses = DictAssign(@, hypothesis)]
    IN  IF store.session_id # 0
        THEN [mem EXCEPT !.db_hypotheses =
                  save_hypothesis(@, hypothesis, store.session_id)]
        ELSE mem

\* get_active_hypotheses without its filter
get_active_hypotheses_unfiltered(store) == store.hypotheses

\* ContextMemory.get_active_hypotheses
get_active_hypotheses(store) ==
    LET IsActive(hyp) == hyp.is_active
    IN  SelectSeq(store.hypotheses, IsActive)

\* save_tournament_result that records the match twice
save_tournament_result_doubled(w, h, hypothesis1_id, hypothesis2_id, winner_id, old_elo1, old_elo2, new_elo1, new_elo2) ==
    LET store == w.stores[h]
        result == [hypothesis1_id |-> hypothesis1_id,
                   hypothesis2_id |-> hypothesis2_id,
                   winner_id |-> winner_id,
                   old_elo1 |-> old_elo1, old_elo2 |-> old_elo2,
                   new_elo1 |-> new_elo1, new_elo2 |-> new_elo2,
                   iteration |-> store.iteration_number]
        mem == [w EXCEPT !.stores[h].tournament_results = Append(Append(@, result), result)]
    IN  IF store.session_id # 0
        THEN [mem EXCEPT !.db_tournament_results =
                  db_save_tournament_result(@, store.session_id,
                                            store.iteration_number, result)]
        ELSE mem

\* save_tournament_result that keeps the record in memory only
save_tournament_result_unpersisted(w, h, hypothesis1_id, hypothesis2_id, winner_id, old_elo1, old_elo2, new_elo1, new_elo2) ==
    LET store == w.stores[h]
        result == [hypothesis1_id |-> hypothesis1_id,
                   hypothesis2_id |-> hypothesis2_id,
                   winner_id |-> winner_id,
                   old_elo1 |-> old_elo1, old_elo2 |-> old_elo2,
                   new_elo1 |-> new_elo1, new_elo2 |-> new_elo2,
                   iteration |-> store.iteration_number]
    IN  [w EXCEPT !.stores[h].tournament_results = Append(@, result)]

\* save_tournament_result with the two new ratings exchanged
save_tournament_result_exchanged(w, h, hypothesis1_id, hypothesis2_id, winner_id, old_elo1, old_elo2, new_elo1, new_elo2) ==
    LET store == w.stores[h]
        result == [hypothesis1_id |-> hypothesis1_id,
                   hypothesis2_id |-> hypothesis2_id,
                   winner_id |-> winner_id,
                   old_elo1 |-> old_elo1, old_elo2 |-> old_elo2,
                   new_elo1 |-> new_elo2, new_elo2 |-> new_elo1,
                   iteration |-> store.iteration_number]
        mem == [w EXCEPT !.stores[h].tournament_results = Append(@, result)]
    IN  IF store.session_id # 0
        THEN [mem EXCEPT !.db_tournament_results =
                  db_save_tournament_result(@, store.session_id,
                                            store.iteration_number, result)]
        ELSE mem

\* ContextMemory.save_tournament_result
save_tournament_result(w, h, hypothesis1_id, hypothesis2_id, winner_id, old_elo1, old_elo2, new_elo1, new_elo2) ==
    LET store == w.stores[h]
        result == [hypothesis1_id |-> hypothesis1_id,
                   hypothesis2_id |-> hypothesis2_id,
                   winner_id |-> winner_id,
                   old_elo1 |-> old_elo1, old_elo2 |-> old_elo2,
                   new_elo1 |-> new_elo1, new_elo2 |-> new_elo2,
                   iteration |-> store.iteration_number]
        mem == [w EXCEPT !.stores[h].tournament_results = Append(@, result)]
    IN  IF store.session_id # 0
        THEN [mem EXCEPT !.db_tournament_results =
                  db_save_tournament_result(@, store.session_id,
                                            store.iteration_number, result)]
        ELSE mem

\* save_meta_review with insert(0, review) for append(review)
save_meta_review_inserting(w, h, critique, suggested_next_steps) ==
    LET store == w.stores[h]
        review == [critique |-> critique,
                   suggested_next_steps |-> suggested_next_steps,
                   iteration |-> store.iteration_number]
        mem == [w EXCEPT !.stores[h].meta_review_feedback = <<review>> \o @]
    IN  IF store.session_id # 0
        THEN [mem EXCEPT !.db_meta_reviews =
                  db_save_meta_review(@, store.session_id, store.iteration_number,
                                      critique, suggested_next_steps)]
        ELSE mem

\* ContextMemory.save_meta_review
save_meta_review(w, h, critique, suggested_next_steps) ==
    LET store == w.stores[h]
        review == [critique |-> critique,
                   suggested_next_steps |-> suggested_next_steps,
                   iteration |-> store.iteration_number]
        mem == [w EXCEPT !.stores[h].meta_review_feedback = Append(@, review)]
    IN  IF store.session_id # 0
        THEN [mem EXCEPT !.db_meta_reviews =
                  db_save_meta_review(@, store.session_id, store.iteration_number,
                                      critique, suggested_next_steps)]
        ELSE mem

\* the state after an operation that leaves the world as w
SetWorld(w) ==
    /\ stores' = w.stores
    /\ db_hypotheses' = w.db_hypotheses
    /\ db_tournament_results' = w.db_tournament_results
    /\ db_meta_reviews' = w.db_meta_reviews
    /\ db_paper_references' = w.db_paper_references

-----------------------------------------------------------------------------
(* Initial values shared by the specifications *)

EmptyWorld ==
    [stores                |-> [h \in Handles |-> IF h = 0 THEN ContextMemory(<<>>, 0)
                                                  ELSE NoStore],
     db_hypotheses         |-> <<>>,
     db_tournament_results |-> [s \in Sessions |-> <<>>],
     db_meta_reviews       |-> [s \in Sessions |-> <<>>],
     db_paper_references   |-> <<>>]

\* what a request handler has answered: status "none" before any answer,
\* "400" and "500" for an HTTPException, "200" with the cycle report
\* (iteration and steps) or with the error of an auto-run cycle that raised
NoResponse == [status |-> "none", iteration |-> 0, steps |-> <<>>, error |-> FALSE]

\* a request-handling thread: where it is (pc), the request it serves (kind),
\* the arguments and locals of the run_cycle execution it is in (store, goal,
\* iteration, steps), the stages of that execution whose collaborator call
\* failed, its last answer, the run_cycle executions it was asked for, the
\* pairs the tournament it is in has judged so far, the text, the source
\* tag and the identifiers of the reference tracking it is in, and the
\* arguments and the SELECT result of the save_hypothesis_paper_reference
\* call it is in, and the call_llm call it makes on its own
IdleThread ==
    [pc |-> "idle", kind |-> "none", store |-> 0, goal |-> NoGoal,
     iteration |-> 0, steps |-> <<>>, failed |-> {}, response |-> NoResponse,
     cycles |-> 0, judged |-> <<>>, references |-> <<>>, source |-> "none",
     found_ids |-> <<>>, link |-> NoLink, llm_call |-> NoCall]

\* the store of session 1 after hypotheses 1..n were generated and added
RECURSIVE PopulatedWorld(_)
PopulatedWorld(n) ==
    IF n = 0
    THEN [EmptyWorld EXCEPT !.stores[1] = ContextMemory(<<>>, 1)]
    ELSE add_hypothesis(PopulatedWorld(n - 1), 1, Hypothesis(n, "t1"))

-----------------------------------------------------------------------------
(* Tournament on one store: decided matches between active hypotheses.     *)
(* The ranking agent is not among the sources; a match follows the         *)
(* specification: both ratings are updated in place with the Elo rule and  *)
(* the match is recorded with ContextMemory.save_tournament_result.        *)

EloKFactors == {16, None}

\* the initial state with world w
InitWorld(w) ==
    /\ stores = w.stores
    /\ db_hypotheses = w.db_hypotheses
    /\ db_tournament_results = w.db_tournament_results
    /\ db_meta_reviews = w.db_meta_reviews
    /\ db_paper_references = w.db_paper_references

InitTournament ==
    /\ InitWorld(PopulatedWorld(TournamentSize))
    /\ next_session = 1
    /\ global_context = 1
    /\ \E k \in EloKFactors : current_research_goal = ResearchGoal(None, k, None)
    /\ threads = [t \in Threads |-> IdleThread]
    /\ collaborators = "reliable"

\* play_match that records the match and leaves the ratings of the store
play_match_unrated(w, h, i, j, first_wins, k) ==
    LET store == w.stores[h]
        hyp1 == store.hypotheses[i]
        hyp2 == store.hypotheses[j]
        new == update_elo(hyp1.elo_score, hyp2.elo_score, first_wins, k)
        winner_id == IF first_wins THEN hyp1.hypothesis_id ELSE hyp2.hypothesis_id
    IN  save_tournament_result(w, h, hyp1.hypothesis_id, hyp2.hypothesis_id,
                               winner_id, hyp1.elo_score, hyp2.elo_score,
                               new[1], new[2])

\* one decided match between the hypotheses at positions i and j of store
\* h: both ratings are updated in place and the match is recorded
play_match(w, h, i, j, first_wins, k) ==
    LET store == w.stores[h]
        hyp1 == store.hypotheses[i]
        hyp2 == store.hypotheses[j]
        new == update_elo(hyp1.elo_score, hyp2.elo_score, first_wins, k)
        rated == [w EXCEPT !.stores[h].hypotheses[i].elo_score = new[1],
                           !.stores[h].hypotheses[j].elo_score = new[2]]
        winner_id == IF first_wins THEN hyp1.hypothesis_id ELSE hyp2.hypothesis_id
    IN  save_tournament_result(rated, h, hyp1.hypothesis_id, hyp2.hypothesis_id,
                               winner_id, hyp1.elo_score, hyp2.elo_score,
                               new[1], new[2])

PlayMatch(h, i, j, first_wins) ==
    /\ Len(stores[h].tournament_results) < MaxMatches
    /\ stores[h].hypotheses[i].is_active /\ stores[h].hypotheses[j].is_active
    /\ SetWorld(play_match(World, h, i, j, first_wins,
                           current_research_goal.elo_k_factor))
    /\ UNCHANGED <<next_session, global_context, current_research_goal, threads,
                   collaborators>>

NextTournament ==
    \E i, j \in 1..TournamentSize, first_wins \in BOOLEAN :
        i < j /\ PlayMatch(1, i, j, first_wins)

SpecTournament == InitTournament /\ [][NextTournament]_vars

-----------------------------------------------------------------------------
(* The store interface used directly: two sessions, each with its own      *)
(* ContextMemory, sharing the one database.  The callers are the agents    *)
(* and the tests; a hypothesis object is shared between the caller and the *)
(* store, so an attribute assignment by the caller changes the object in   *)
(* the store without touching the database.                                *)

InitStore ==
    /\ InitWorld([EmptyWorld EXCEPT
                     !.stores = [h \in Handles |-> ContextMemory(<<>>, h)]])
    /\ next_session = Cardinality(Sessions)
    /\ global_context = 0
    /\ current_research_goal = NoGoal
    /\ threads = [t \in Threads |-> IdleThread]
    /\ collaborators = "reliable"

StoreFrame ==
    UNCHANGED <<next_session, global_context, current_research_goal, threads,
                collaborators>>

\* context.add_hypothesis(Hypothesis(id, title, text)): a new object
StoreAddNew(h, hypothesis_id, text) ==
    LET hypothesis == Hypothesis(hypothesis_id, text)
    IN  /\ SetWorld(add_hypothesis(World, h, hypothesis))
        /\ StoreFrame

\* context.add_hypothesis(h) with an object the store already holds
StoreResave(h, i) ==
    /\ i \in 1..Len(stores[h].hypotheses)
    /\ SetWorld(add_hypothesis(World, h, stores[h].hypotheses[i]))
    /\ StoreFrame

\* hypothesis.is_active = value, on an object the store holds
StoreSetActive(h, i) ==
    /\ i \in 1..Len(stores[h].hypotheses)
    /\ SetWorld([World EXCEPT !.stores[h].hypotheses[i].is_active = ~@])
    /\ StoreFrame

\* one operation on the hypotheses of the store of session h
StoreStep(h) ==
    \/ \E hypothesis_id \in HIds, text \in Texts : StoreAddNew(h, hypothesis_id, text)
    \/ \E i \in 1..Cardinality(HIds) : StoreResave(h, i)
    \/ \E i \in 1..Cardinality(HIds) : StoreSetActive(h, i)

NextStore == \E h \in Sessions : StoreStep(h)

SpecStore == InitStore /\ [][NextStore]_vars

-----------------------------------------------------------------------------
(* The histories of one store: matches and meta-reviews are recorded on    *)
(* the store of session 1 while hypotheses are added and deactivated.      *)

Critiques == {"c1", "c2"}

\* context.save_tournament_result(...) for a match between hypotheses 1 and 2
\* that both entered it at 1200
StoreSaveTournamentResult(h, first_wins) ==
    LET new == update_elo(InitialElo, InitialElo, first_wins, default_elo_k_factor)
    IN  /\ Len(stores[h].tournament_results) + Len(stores[h].meta_review_feedback)
               < MaxHistory
        /\ SetWorld(save_tournament_result(World, h, 1, 2,
                                           IF first_wins THEN 1 ELSE 2,
                                           InitialElo, InitialElo, new[1], new[2]))
        /\ StoreFrame

\* context.save_meta_review(critique, suggested_next_steps)
StoreSaveMetaReview(h, critique) ==
    /\ Len(stores[h].tournament_results) + Len(stores[h].meta_review_feedback)
           < MaxHistory
    /\ SetWorld(save_meta_review(World, h, critique, <<>>))
    /\ StoreFrame

NextHistory ==
    \/ \E first_wins \in BOOLEAN : StoreSaveTournamentResult(1, first_wins)
    \/ \E critique \in Critiques : StoreSaveMetaReview(1, critique)
    \/ \E hypothesis_id \in HIds, text \in Texts : StoreAddNew(1, hypothesis_id, text)
    \/ \E i \in 1..Cardinality(HIds) : StoreSetActive(1, i)

SpecHistory == InitStore /\ [][NextHistory]_vars

-----------------------------------------------------------------------------
(* Collaborators (app/utils.py) *)

\* what one attempt of client.chat.completions.create can do: answer with a
\* choice, answer with no choices, or raise
Attempts == {"choice", "no_choices", "raises"}

\* call_llm with a loop that lets the last exception out
RECURSIVE call_llm_raising(_, _)
call_llm_raising(outcomes, attempt) ==
    IF attempt > max_retries \/ attempt > Len(outcomes)
    THEN "raised"
    ELSE IF outcomes[attempt] = "choice"
         THEN "response"
         ELSE call_llm_raising(outcomes, attempt + 1)

\* call_llm: up to max_retries attempts; the first choice is the answer, and
\* when no attempt gave one the answer is the string "Error: ..."; no
\* exception of an attempt leaves the function.  outcomes[attempt] is what
\* the attempt does.
RECURSIVE call_llm(_, _)
call_llm(outcomes, attempt) ==
    IF attempt > max_retries \/ attempt > Len(outcomes)
    THEN "Error"
    ELSE IF outcomes[attempt] = "choice"
         THEN "response"
         ELSE call_llm(outcomes, attempt + 1)

\* what the environment and the configuration of a call_llm call are: the
\* llm_model of config.yaml is there or not; OPENROUTER_API_KEY is set, set
\* to the empty string or not set; and the OpenAI constructor, which for a
\* key that is not set gets api_key = None, gives a client or raises
LLMSettings ==
    {setting \in [llm_model : {"configured", "missing"},
                  api_key   : {"set", "empty", "unset"},
                  client    : {"constructed", "raises"}] :
        setting.client = "raises" => setting.api_key = "unset"}

\* 2^n
RECURSIVE Pow2(_)
Pow2(n) == IF n = 0 THEN 1 ELSE 2 * Pow2(n - 1)

\* a call_llm run before its first attempt: the attempts made, whether one
\* succeeded, the message of the last failure, the sleeps (after which
\* attempt, for how long), what was returned, and whether an exception left
\* the function
FirstRun ==
    [attempts |-> 0, success |-> FALSE,
     last_error_message |-> "API call failed after multiple retries.",
     sleeps |-> <<>>, returned |-> <<>>, raised |-> FALSE]

\* the retry loop of call_llm from the attempt given (counted from 0)
RECURSIVE call_attempts(_, _, _)
call_attempts(outcomes, attempt, run) ==
    IF attempt >= max_retries THEN run
    ELSE LET tried == [run EXCEPT !.attempts = @ + 1]
         IN  CASE outcomes[attempt + 1] = "choice" ->
                      [tried EXCEPT !.success = TRUE]
               [] outcomes[attempt + 1] = "no_choices" ->
                      call_attempts(outcomes, attempt + 1,
                                    [tried EXCEPT !.last_error_message =
                                                      "No choices in the response"])
               [] outcomes[attempt + 1] = "raises" ->
                      LET failed == [tried EXCEPT !.last_error_message =
                                                      "API call failed"]
                      IN  IF attempt < max_retries - 1
                          THEN call_attempts(
                                   outcomes, attempt + 1,
                                   [failed EXCEPT !.sleeps =
                                       Append(@, [after |-> attempt,
                                                  wait |-> initial_retry_delay
                                                               * Pow2(attempt)])])
                          ELSE failed

\* the string "Error: " followed by the message
ErrorString(message) == <<"Error: ", message>>

\* the whole of call_llm: the client is constructed, then the two checks of
\* the configuration, then the retry loop, then the return
call_llm_run(setting, outcomes) ==
    IF setting.client = "raises" THEN [FirstRun EXCEPT !.raised = TRUE]
    ELSE IF setting.llm_model = "missing"
         THEN [FirstRun EXCEPT !.returned = ErrorString("LLM model not configured.")]
    ELSE IF setting.api_key # "set"
         THEN [FirstRun EXCEPT !.returned = ErrorString("OpenRouter API key not set.")]
    ELSE LET run == call_attempts(outcomes, 0, FirstRun)
         IN  [run EXCEPT !.returned = IF run.success THEN <<"response_content">>
                                      ELSE ErrorString(run.last_error_message)]

\* the collaborator behaviours a stage is run against: an answer at once, an
\* answer after two failures, and failures on every attempt
LLMOutcomes ==
    {<<"choice">>,
     <<"raises", "no_choices", "choice">>,
     <<"raises", "raises", "raises">>,
     <<"no_choices", "raises", "no_choices">>}

\* the values of random.randint(1000, 9999), cut to three
UniqueIds == {1, 2, 3}

\* generate_unique_id: a random id, which nothing checks against the ids in
\* use.  Ids that no store and no row holds are interchangeable, so of them
\* only the smallest is drawn.
generate_unique_id(w) ==
    LET used == RowIds(w.db_hypotheses)
                    \cup UNION {HypothesisIds(w.stores[h]) :
                                   h \in {x \in Handles : w.stores[x] # NoStore}}
        unused == UniqueIds \ used
    IN  used \cup {id \in unused : \A other \in unused : id <= other}

\* step_order with the tournament after the evolution
step_order_evolution_first ==
    <<"generation", "reflection", "evolution", "ranking", "reflection_evolved",
      "ranking_final", "proximity", "meta_review">>

\* the order of the steps of a cycle report (format_cycle_results)
step_order ==
    <<"generation", "reflection", "ranking", "evolution", "reflection_evolved",
      "ranking_final", "proximity", "meta_review">>

StageNames == SeqToSet(step_order)

\* the stage after the one named (the last stage has none)
NextStage(name) ==
    LET i == CHOOSE k \in 1..Len(step_order) : step_order[k] = name
    IN  IF i = Len(step_order) THEN "idle" ELSE step_order[i + 1]

-----------------------------------------------------------------------------
(* Similarity of two texts (app/utils.py).  A text is a string; the string *)
(* MissingText stands for None.  The sentence-transformer model is the     *)
(* embedding collaborator: it gives every text a vector, the same vector   *)
(* for the same text, and loading it or encoding with it may raise.        *)
(* Similarities are in units of 1/FixedOne.                                *)

MissingText == "None"

\* the texts a hypothesis of the proximity model can have
ProximityTexts == {"", MissingText, "t1", "t2", "t3"}

\* the truth value of a text: None and the empty string are false
Truthy(text) == text # MissingText /\ text # ""

\* how the collaborator behaves in one similarity_score call: the model is
\* there and encodes, loading the model raises, or encoding raises
EmbeddingOutcomes == {"encoded", "load_raises", "encode_raises"}

\* model.encode: the vector of a text
Embedding(text) ==
    CASE text = "t1" -> <<1, 0>>
      [] text = "t2" -> <<1, 1>>
      [] OTHER       -> <<0 - 1, 1>>

\* the largest r in lo..hi with r * r <= x
RECURSIVE ISqrtBetween(_, _, _)
ISqrtBetween(x, lo, hi) ==
    IF lo >= hi THEN lo
    ELSE LET mid == (lo + hi + 1) \div 2
         IN  IF mid * mid <= x THEN ISqrtBetween(x, mid, hi)
             ELSE ISqrtBetween(x, lo, mid - 1)

\* sklearn's cosine_similarity of two vectors: dot / (|a| |b|)
cosine_similarity(a, b) ==
    LET dot == a[1] * b[1] + a[2] * b[2]
        norms == (a[1] * a[1] + a[2] * a[2]) * (b[1] * b[1] + b[2] * b[2])
        denominator == ISqrtBetween(norms * FixedOne * FixedOne, 0, 4 * FixedOne)
    IN  IF dot >= 0 THEN RoundDiv(dot * FixedOne * FixedOne, denominator)
        ELSE 0 - RoundDiv((0 - dot) * FixedOne * FixedOne, denominator)

\* np.clip(similarity, 0.0, 1.0)
clip(similarity) ==
    IF similarity < 0 THEN 0
    ELSE IF similarity > FixedOne THEN FixedOne ELSE similarity

\* what a similarity_score call comes to: the value it returns, whether an
\* exception left it, how often it asked for the model, the texts it had
\* encoded, and whether it met an exception
SimilarityResult(similarity, raised, model_requests, encoded) ==
    [similarity |-> similarity, raised |-> raised, model_requests |-> model_requests,
     encoded |-> encoded, failed |-> raised]

\* the body of the try block of similarity_score: 0.0 at once when a text
\* is empty or None; otherwise the model is fetched (which raises when it
\* cannot be loaded; get_sentence_transformer_model never returns None),
\* both texts are encoded and the cosine similarity of the vectors is
\* clipped to [0, 1]
similarity_try(textA, textB, outcome) ==
    IF ~Truthy(textA) \/ ~Truthy(textB) THEN SimilarityResult(0, FALSE, 0, <<>>)
    ELSE IF outcome = "load_raises" THEN SimilarityResult(0, TRUE, 1, <<>>)
    ELSE IF outcome = "encode_raises" THEN SimilarityResult(0, TRUE, 1, <<>>)
    ELSE SimilarityResult(clip(cosine_similarity(Embedding(textA), Embedding(textB))),
                          FALSE, 1, <<textA, textB>>)

\* similarity_score that answers an exception with 0.5
similarity_score_half_on_error(textA, textB, outcome) ==
    LET body == similarity_try(textA, textB, outcome)
    IN  IF body.raised
        THEN [body EXCEPT !.similarity = FixedOne \div 2, !.raised = FALSE]
        ELSE body

\* similarity_score: the try block, and any exception of it is caught and
\* answered with 0.0
similarity_score(textA, textB, outcome) ==
    LET body == similarity_try(textA, textB, outcome)
    IN  IF body.raised
        THEN [body EXCEPT !.similarity = 0, !.raised = FALSE]
        ELSE body

-----------------------------------------------------------------------------
(* The stages of run_cycle.  The agents (agents.py) are not among the      *)
(* sources; the stages follow the specification: each stage reads the      *)
(* store, commits its whole update at once, and reports.  A stage whose    *)
(* collaborator call fails after its retries degrades to an empty result   *)
(* and reports the error; an integrity error (an id that the store already *)
(* holds) is fatal to the cycle.  A stage result is the world after it,    *)
(* whether it reports an error, whether it raised, and what else it puts   *)
(* into the report.                                                        *)

StageResult(w, error, raised) ==
    [world |-> w, error |-> error, raised |-> raised, payload |-> <<>>]

\* Generation: one new active hypothesis at 1200 with a fresh id
generation_stage(w, h, goal, new_id, llm) ==
    IF llm = "Error" THEN StageResult(w, TRUE, FALSE)
    ELSE IF llm = "raised" \/ new_id \in HypothesisIds(w.stores[h])
         THEN StageResult(w, FALSE, TRUE)
         ELSE StageResult(add_hypothesis(w, h, Hypothesis(new_id, "t1")), FALSE, FALSE)

\* Reflection (of the population, of the offspring): reviews are not part of
\* the modelled hypothesis
reflection_stage(w, h, goal, llm) ==
    IF llm = "raised" THEN StageResult(w, FALSE, TRUE)
    ELSE StageResult(w, llm = "Error", FALSE)

\* the ids of a sequence of hypotheses, in order
IdsOf(hyps) == [i \in 1..Len(hyps) |-> hyps[i].hypothesis_id]

\* positions of the active hypotheses of a store, in store order
ActivePositions(store) ==
    LET IsActiveAt(i) == store.hypotheses[i].is_active
    IN  SelectSeq([i \in 1..Len(store.hypotheses) |-> i], IsActiveAt)

\* the pairs (i, j), i < j <= n, in the order of two nested loops
RECURSIVE PairsFrom(_, _, _)
PairsFrom(i, j, n) ==
    IF i >= n THEN <<>>
    ELSE IF j > n THEN PairsFrom(i + 1, i + 2, n)
         ELSE <<<<i, j>>>> \o PairsFrom(i, j + 1, n)

\* the matches of a tournament: every pair of active hypotheses once
TournamentPairs(store) ==
    LET active == ActivePositions(store)
        pairs == PairsFrom(1, 2, Len(active))
    IN  [m \in 1..Len(pairs) |-> <<active[pairs[m][1]], active[pairs[m][2]]>>]

\* the matches from the m-th on, judged by judgments (TRUE: the first wins)
RECURSIVE play_matches(_, _, _, _, _, _)
play_matches(w, h, pairs, judgments, k, m) ==
    IF m > Len(pairs) THEN w
    ELSE play_matches(play_match(w, h, pairs[m][1], pairs[m][2], judgments[m], k),
                      h, pairs, judgments, k, m + 1)

\* Ranking: the tournament over the active hypotheses with K = elo_k_factor
ranking_stage(w, h, goal, judgments, llm) ==
    IF llm = "raised" THEN StageResult(w, FALSE, TRUE)
    ELSE IF llm = "Error" THEN StageResult(w, TRUE, FALSE)
         ELSE StageResult(play_matches(w, h, TournamentPairs(w.stores[h]), judgments,
                                       goal.elo_k_factor, 1), FALSE, FALSE)

\* hypothesis a comes before b in the selection order: the higher rating
\* first, the smaller id first among equal ratings
Before(a, b) ==
    \/ a.elo_score > b.elo_score
    \/ a.elo_score = b.elo_score /\ a.hypothesis_id < b.hypothesis_id

RECURSIVE SortHypotheses(_)
SortHypotheses(hyps) ==
    IF hyps = {} THEN <<>>
    ELSE LET first == CHOOSE a \in hyps : \A b \in hyps \ {a} : Before(a, b)
         IN  <<first>> \o SortHypotheses(hyps \ {first})

\* the parent pool: the top_k_hypotheses best active hypotheses
select_parents(store, top_k) ==
    LET sorted == SortHypotheses(SeqToSet(get_active_hypotheses(store)))
    IN  SubSeq(sorted, 1, IF Len(sorted) < top_k THEN Len(sorted) ELSE top_k)

\* evolution_stage that adds its offspring whatever id was drawn
evolution_stage_unchecked(w, h, goal, new_id, llm) ==
    LET parents == select_parents(w.stores[h], goal.top_k_hypotheses)
        offspring == [Hypothesis(new_id, "t2") EXCEPT
                         !.parent_ids = [i \in 1..Len(parents) |->
                                            parents[i].hypothesis_id]]
    IN  IF llm = "raised" THEN StageResult(w, FALSE, TRUE)
        ELSE IF llm = "Error" THEN StageResult(w, TRUE, FALSE)
        ELSE IF Len(parents) < 2 THEN StageResult(w, FALSE, FALSE)
        ELSE StageResult(add_hypothesis(w, h, offspring), FALSE, FALSE)

\* Evolution: one offspring of the parent pool, with a fresh id, 1200,
\* active, and the ids of the whole pool as parent_ids; the parents stay as
\* they are.  A pool of fewer than two parents has nothing to recombine.
evolution_stage(w, h, goal, new_id, llm) ==
    LET parents == select_parents(w.stores[h], goal.top_k_hypotheses)
        offspring == [Hypothesis(new_id, "t2") EXCEPT
                         !.parent_ids = [i \in 1..Len(parents) |->
                                            parents[i].hypothesis_id]]
    IN  IF llm = "raised" THEN StageResult(w, FALSE, TRUE)
        ELSE IF llm = "Error" THEN StageResult(w, TRUE, FALSE)
        ELSE IF Len(parents) < 2 THEN StageResult(w, FALSE, FALSE)
        ELSE IF new_id \in HypothesisIds(w.stores[h]) THEN StageResult(w, FALSE, TRUE)
        ELSE StageResult(add_hypothesis(w, h, offspring), FALSE, FALSE)

\* build_proximity_graph that enters a pair in the list of its first
\* hypothesis only
RECURSIVE build_proximity_graph_one_way(_, _, _, _, _)
build_proximity_graph_one_way(store, pairs, outcomes, m, graph) ==
    IF m > Len(pairs) THEN graph
    ELSE LET a == store.hypotheses[pairs[m][1]]
             b == store.hypotheses[pairs[m][2]]
             call == similarity_score(a.text, b.text, outcomes[m])
             adjacency ==
                 [graph.adjacency_graph EXCEPT
                     ![a.hypothesis_id] =
                         Append(@, [other_id |-> b.hypothesis_id,
                                    similarity |-> call.similarity])]
         IN  build_proximity_graph_one_way(store, pairs, outcomes, m + 1,
                                           [adjacency_graph |-> adjacency,
                                            calls |-> Append(graph.calls, call)])

\* the adjacency structure over the pairs from the m-th on: the similarity
\* of a pair is computed once, with similarity_score, and entered in the
\* lists of both hypotheses; calls keeps what every call came to
RECURSIVE build_proximity_graph(_, _, _, _, _)
build_proximity_graph(store, pairs, outcomes, m, graph) ==
    IF m > Len(pairs) THEN graph
    ELSE LET a == store.hypotheses[pairs[m][1]]
             b == store.hypotheses[pairs[m][2]]
             call == similarity_score(a.text, b.text, outcomes[m])
             adjacency ==
                 [graph.adjacency_graph EXCEPT
                     ![a.hypothesis_id] =
                         Append(@, [other_id |-> b.hypothesis_id,
                                    similarity |-> call.similarity]),
                     ![b.hypothesis_id] =
                         Append(@, [other_id |-> a.hypothesis_id,
                                    similarity |-> call.similarity])]
         IN  build_proximity_graph(store, pairs, outcomes, m + 1,
                                   [adjacency_graph |-> adjacency,
                                    calls |-> Append(graph.calls, call)])

\* Proximity: the adjacency structure over the active hypotheses, which is
\* part of the report only.  similarity_score answers a failure of the
\* embedding collaborator with 0.0, so the stage has no error to report; it
\* raises when similarity_score does.
proximity_stage(w, h, goal, outcomes) ==
    LET store == w.stores[h]
        active == get_active_hypotheses(store)
        empty == [adjacency_graph |-> [id \in SeqToSet(IdsOf(active)) |-> <<>>],
                  calls |-> <<>>]
        graph == build_proximity_graph(store, TournamentPairs(store), outcomes, 1, empty)
        raised == \E c \in 1..Len(graph.calls) : graph.calls[c].raised
    IN  [StageResult(w, FALSE, raised) EXCEPT !.payload = graph]

\* MetaReview: the critique is recorded; then the cycle is complete and the
\* store's iteration_number becomes the iteration of the cycle
meta_review_stage(w, h, goal, iteration, llm) ==
    LET reviewed == IF llm = "Error" THEN w ELSE save_meta_review(w, h, "c1", <<>>)
        done == [reviewed EXCEPT !.stores[h].iteration_number = iteration]
    IN  IF llm = "raised" THEN StageResult(w, FALSE, TRUE)
        ELSE StageResult(done, llm = "Error", FALSE)

-----------------------------------------------------------------------------
(* The web API (app/api.py).  The endpoints are plain functions, which the *)
(* server runs in a pool of threads; they share the module globals         *)
(* current_research_goal and global_context and take no lock.  A thread    *)
(* that is in run_cycle moves from stage to stage, and the threads         *)
(* interleave between stages.  Session ids are taken to be fresh (two      *)
(* create_session calls do not fall into the same second).                 *)

\* the bodies of the POST /research_goal requests: one hypothesis per stage,
\* the default K, and top_k_hypotheses left out or set to 1
Requests ==
    {[num_hypotheses |-> 1, elo_k_factor |-> None, top_k_hypotheses |-> top_k] :
         top_k \in {None, 1}}

\* the process after import: no goal, a store without a session
InitGlobals ==
    /\ InitWorld(EmptyWorld)
    /\ next_session = 0
    /\ global_context = 0
    /\ current_research_goal = NoGoal
    /\ threads = [t \in Threads |-> IdleThread]

InitApi == InitGlobals /\ collaborators = "reliable"

RECURSIVE CyclesStarted(_)
CyclesStarted(ts) ==
    IF ts = {} THEN 0
    ELSE LET t == CHOOSE x \in ts : TRUE
         IN  threads[t].cycles + CyclesStarted(ts \ {t})

Running(t) == threads[t].pc \in StageNames

\* supervisor.run_cycle(goal, store) is entered: iteration is read from the
\* store
EnterCycle(t, kind, goal, h, cycles) ==
    threads' = [threads EXCEPT ![t] =
                   [pc |-> step_order[1], kind |-> kind, store |-> h, goal |-> goal,
                    iteration |-> stores[h].iteration_number + 1, steps |-> <<>>,
                    failed |-> {}, response |-> NoResponse, cycles |-> cycles,
                    judged |-> <<>>, references |-> <<>>, source |-> "none",
                    found_ids |-> <<>>, link |-> NoLink, llm_call |-> NoCall]]

\* set_research_goal up to the auto-run: the goal is built from the request
\* as it is, a session is created, and both globals are rebound
SetResearchGoal(t, req) ==
    LET session == next_session + 1
    IN  /\ threads[t].pc = "idle"
        /\ session \in Sessions
        /\ CyclesStarted(Threads) < MaxCycles
        /\ current_research_goal' = ResearchGoal(req.num_hypotheses, req.elo_k_factor,
                                                 req.top_k_hypotheses)
        /\ next_session' = session
        /\ stores' = [stores EXCEPT ![session] = ContextMemory(db_hypotheses, session)]
        /\ global_context' = session
        /\ threads' = [threads EXCEPT ![t] =
                          [IdleThread EXCEPT !.pc = "auto_run", !.kind = "research_goal",
                                             !.cycles = threads[t].cycles + 1]]
        /\ UNCHANGED <<db_hypotheses, db_tournament_results, db_meta_reviews,
                       db_paper_references, collaborators>>

\* set_research_goal, the auto-run: run_cycle on what the globals hold now
AutoRun(t) ==
    /\ threads[t].pc = "auto_run"
    /\ EnterCycle(t, "research_goal", current_research_goal, global_context,
                  threads[t].cycles)
    /\ UNCHANGED <<stores, db_hypotheses, db_tournament_results, db_meta_reviews,
                   db_paper_references, next_session, global_context,
                   current_research_goal, collaborators>>

\* run_cycle_endpoint without a goal: HTTP 400
RunCycleNoGoal(t) ==
    /\ threads[t].pc = "idle"
    /\ current_research_goal = NoGoal
    /\ threads' = [threads EXCEPT ![t] =
                      [IdleThread EXCEPT !.kind = "run_cycle",
                                         !.response = [NoResponse EXCEPT !.status = "400"],
                                         !.cycles = threads[t].cycles]]
    /\ UNCHANGED <<stores, db_hypotheses, db_tournament_results, db_meta_reviews,
                   db_paper_references, next_session, global_context,
                   current_research_goal, collaborators>>

\* run_cycle_endpoint with a goal: run_cycle on what the globals hold
RunCycleEndpoint(t) ==
    /\ threads[t].pc = "idle"
    /\ current_research_goal # NoGoal
    /\ CyclesStarted(Threads) < MaxCycles
    /\ EnterCycle(t, "run_cycle", current_research_goal, global_context,
                  threads[t].cycles + 1)
    /\ UNCHANGED <<stores, db_hypotheses, db_tournament_results, db_meta_reviews,
                   db_paper_references, next_session, global_context,
                   current_research_goal, collaborators>>

\* no attempt of the collaborator call gives an answer
Exhausted(outcomes) ==
    \A attempt \in 1..max_retries :
        attempt <= Len(outcomes) => outcomes[attempt] # "choice"

\* whether the stage has anything to ask its collaborator about
StageCalls(name, store, goal) ==
    CASE name \in {"generation", "meta_review"} -> TRUE
      [] name = "reflection" -> Len(get_active_hypotheses(store)) > 0
      [] name = "reflection_evolved" ->
             \E hyp \in SeqToSet(get_active_hypotheses(store)) : hyp.parent_ids # <<>>
      [] name \in {"ranking", "ranking_final"} ->
             Len(TournamentPairs(store)) > 0
      [] name = "evolution" -> Len(select_parents(store, goal.top_k_hypotheses)) >= 2

\* the collaborator behaviours stage name of thread t can meet
StageOutcomes(t, name) ==
    {outcomes \in LLMOutcomes :
        Exhausted(outcomes) =>
            /\ StageCalls(name, stores[threads[t].store], threads[t].goal)
            /\ collaborators = "failing"
            /\ Cardinality(threads[t].failed) < MaxFailures}

\* what run_cycle hands back after MetaReview
CycleReport(th, steps) ==
    [status |-> "200", iteration |-> th.iteration, steps |-> steps, error |-> FALSE]

\* the answer of the endpoint when run_cycle raised: HTTP 500 from /run_cycle,
\* the error in place of the report from /research_goal
RaisedResponse(th) ==
    [status |-> IF th.kind = "run_cycle" THEN "500" ELSE "200",
     iteration |-> 0, steps |-> <<>>, error |-> TRUE]

\* thread t has run stage name with stage result r against outcomes
FinishStage(t, name, call_failed, r) ==
    LET th == threads[t]
        failed == IF call_failed THEN th.failed \cup {name} ELSE th.failed
        steps == Append(th.steps, [name |-> name, error |-> r.error,
                                   payload |-> r.payload])
    IN  IF r.raised
        THEN /\ threads' = [threads EXCEPT ![t] =
                               [th EXCEPT !.pc = "idle", !.failed = failed,
                                          !.response = RaisedResponse(th)]]
             /\ UNCHANGED <<stores, db_hypotheses, db_tournament_results,
                            db_meta_reviews, db_paper_references>>
        ELSE /\ SetWorld(r.world)
             /\ threads' = [threads EXCEPT ![t] =
                               [th EXCEPT !.pc = NextStage(name), !.failed = failed,
                                          !.steps = steps,
                                          !.response = IF NextStage(name) = "idle"
                                                       THEN CycleReport(th, steps)
                                                       ELSE th.response]]

ApiFrame ==
    UNCHANGED <<next_session, global_context, current_research_goal, collaborators>>

Generation(t) ==
    /\ threads[t].pc = "generation"
    /\ \E outcomes \in StageOutcomes(t, "generation"), new_id \in generate_unique_id(World) :
           FinishStage(t, "generation", Exhausted(outcomes),
                       generation_stage(World, threads[t].store, threads[t].goal,
                                        new_id, call_llm(outcomes, 1)))
    /\ ApiFrame

Reflection(t) ==
    /\ threads[t].pc = "reflection"
    /\ \E outcomes \in StageOutcomes(t, "reflection") :
           FinishStage(t, "reflection", Exhausted(outcomes),
                       reflection_stage(World, threads[t].store, threads[t].goal,
                                        call_llm(outcomes, 1)))
    /\ ApiFrame

Ranking(t) ==
    /\ threads[t].pc = "ranking"
    /\ \E outcomes \in StageOutcomes(t, "ranking"),
          judgments \in [1..Len(TournamentPairs(stores[threads[t].store])) -> BOOLEAN] :
           FinishStage(t, "ranking", Exhausted(outcomes),
                       ranking_stage(World, threads[t].store, threads[t].goal,
                                     judgments, call_llm(outcomes, 1)))
    /\ ApiFrame

Evolution(t) ==
    /\ threads[t].pc = "evolution"
    /\ \E outcomes \in StageOutcomes(t, "evolution"), new_id \in generate_unique_id(World) :
           FinishStage(t, "evolution", Exhausted(outcomes),
                       evolution_stage(World, threads[t].store, threads[t].goal,
                                       new_id, call_llm(outcomes, 1)))
    /\ ApiFrame

ReflectionEvolved(t) ==
    /\ threads[t].pc = "reflection_evolved"
    /\ \E outcomes \in StageOutcomes(t, "reflection_evolved") :
           FinishStage(t, "reflection_evolved", Exhausted(outcomes),
                       reflection_stage(World, threads[t].store, threads[t].goal,
                                        call_llm(outcomes, 1)))
    /\ ApiFrame

RankingFinal(t) ==
    /\ threads[t].pc = "ranking_final"
    /\ \E outcomes \in StageOutcomes(t, "ranking_final"),
          judgments \in [1..Len(TournamentPairs(stores[threads[t].store])) -> BOOLEAN] :
           FinishStage(t, "ranking_final", Exhausted(outcomes),
                       ranking_stage(World, threads[t].store, threads[t].goal,
                                     judgments, call_llm(outcomes, 1)))
    /\ ApiFrame

\* the behaviours of the embedding collaborator the proximity stage of
\* thread t can meet, one for every pair: at most one call fails
ProximityOutcomes(t) ==
    LET store == stores[threads[t].store]
        pairs == TournamentPairs(store)
        Calls(m) == /\ Truthy(store.hypotheses[pairs[m][1]].text)
                    /\ Truthy(store.hypotheses[pairs[m][2]].text)
    IN  {outcomes \in [1..Len(pairs) -> EmbeddingOutcomes] :
            \A m \in 1..Len(pairs) :
                outcomes[m] # "encoded" =>
                    /\ Calls(m)
                    /\ collaborators = "failing"
                    /\ Cardinality(threads[t].failed) < MaxFailures
                    /\ \A other \in 1..Len(pairs) :
                           other # m => outcomes[other] = "encoded"}

Proximity(t) ==
    /\ threads[t].pc = "proximity"
    /\ \E outcomes \in ProximityOutcomes(t) :
           LET r == proximity_stage(World, threads[t].store, threads[t].goal, outcomes)
           IN  FinishStage(t, "proximity",
                           \E c \in 1..Len(r.payload.calls) : r.payload.calls[c].failed, r)
    /\ ApiFrame

MetaReview(t) ==
    /\ threads[t].pc = "meta_review"
    /\ \E outcomes \in StageOutcomes(t, "meta_review") :
           FinishStage(t, "meta_review", Exhausted(outcomes),
                       meta_review_stage(World, threads[t].store, threads[t].goal,
                                         threads[t].iteration, call_llm(outcomes, 1)))
    /\ ApiFrame

\* one step of thread t
Serve(t) ==
    \/ \E req \in Requests : SetResearchGoal(t, req)
    \/ AutoRun(t)
    \/ RunCycleNoGoal(t)
    \/ RunCycleEndpoint(t)
    \/ Generation(t)
    \/ Reflection(t)
    \/ Ranking(t)
    \/ Evolution(t)
    \/ ReflectionEvolved(t)
    \/ RankingFinal(t)
    \/ Proximity(t)
    \/ MetaReview(t)

\* the server under concurrent requests, with collaborators that answer
Next == \E t \in Threads : Serve(t)

Spec == InitApi /\ [][Next]_vars

\* one client that waits for each answer before its next request, with
\* collaborators that may fail
InitCycle == InitGlobals /\ collaborators = "failing"

NextCycle == Serve(1)

SpecCycle == InitCycle /\ [][NextCycle]_vars

-----------------------------------------------------------------------------
(* The tournament of a ranking stage, pair by pair.  The ranking agent is  *)
(* not among the sources; the loop follows the specification: every pair   *)
(* of active hypotheses is put to the judgment collaborator once, in an    *)
(* order the specification leaves open, and the judgment names the first   *)
(* hypothesis, the second, or gives no decision.  A decided pair is a      *)
(* match; a pair without a decision changes no rating and leaves no record.*)
(* The tournament may be abandoned after any pair.                         *)

Decisions == {"first", "second", "none"}

\* judge_pair that takes a missing decision for a win of the first
judge_pair_defaulting(w, h, i, j, decision, k) ==
    play_match(w, h, i, j, decision # "second", k)

\* the pair at positions i and j of store h with the judgment decision
judge_pair(w, h, i, j, decision, k) ==
    IF decision = "none" THEN w
    ELSE play_match(w, h, i, j, decision = "first", k)

\* the pairs thread t has judged
JudgedPairs(t) ==
    {threads[t].judged[m].pair : m \in 1..Len(threads[t].judged)}

\* a request thread in the ranking stage of the first cycle on store 1
RankingThread ==
    [IdleThread EXCEPT !.pc = "ranking", !.kind = "run_cycle", !.store = 1,
                       !.goal = current_research_goal, !.iteration = 1,
                       !.steps = <<[name |-> "generation", error |-> FALSE,
                                    payload |-> <<>>],
                                   [name |-> "reflection", error |-> FALSE,
                                    payload |-> <<>>]>>,
                       !.cycles = 1]

InitRanking ==
    /\ InitWorld(PopulatedWorld(TournamentSize))
    /\ next_session = 1
    /\ global_context = 1
    /\ \E k \in EloKFactors : current_research_goal = ResearchGoal(None, k, None)
    /\ threads = [t \in Threads |-> IF t = 1 THEN RankingThread ELSE IdleThread]
    /\ collaborators = "reliable"

\* the tournament of thread t judges the pair (i, j), which it has not yet
JudgePair(t, i, j, decision) ==
    LET th == threads[t]
    IN  /\ th.pc = "ranking"
        /\ <<i, j>> \in SeqToSet(TournamentPairs(stores[th.store]))
        /\ <<i, j>> \notin JudgedPairs(t)
        /\ Len(th.judged) < MaxMatches
        /\ SetWorld(judge_pair(World, th.store, i, j, decision, th.goal.elo_k_factor))
        /\ threads' = [threads EXCEPT ![t].judged =
                          Append(@, [pair |-> <<i, j>>, decision |-> decision])]
        /\ ApiFrame

NextRanking ==
    \E i, j \in 1..TournamentSize, decision \in Decisions : JudgePair(1, i, j, decision)

SpecRanking == InitRanking /\ [][NextRanking]_vars

-----------------------------------------------------------------------------
(* The evolution stages of successive cycles on one store.  The population *)
(* the first of them finds is drawn from a bounded set: TournamentSize     *)
(* first-generation hypotheses, each with one of three ratings and active  *)
(* or not (ratings and flags are attributes the agents assign in memory).  *)
(* The evolution agent is not among the sources; the stage follows the     *)
(* specification.                                                          *)

\* 1200, 1250 and 1300 points
EloChoices == {InitialElo, InitialElo + 50 * EloScale, InitialElo + 100 * EloScale}

\* the id of the i-th hypothesis of that population: an id drawn in an
\* earlier run, outside the values a draw of this run can give
EarlierId(i) == Cardinality(UniqueIds) + i

\* the store of session 1 after n hypotheses with such ids were added
RECURSIVE EarlierWorld(_)
EarlierWorld(n) ==
    IF n = 0
    THEN [EmptyWorld EXCEPT !.stores[1] = ContextMemory(<<>>, 1)]
    ELSE add_hypothesis(EarlierWorld(n - 1), 1, Hypothesis(EarlierId(n), "t1"))

\* that store with the ratings and flags given
RatedWorld(elos, actives) ==
    [EarlierWorld(TournamentSize) EXCEPT
        !.stores[1].hypotheses =
            [i \in 1..TournamentSize |->
                [@[i] EXCEPT !.elo_score = elos[i], !.is_active = actives[i]]]]

\* a request thread in the evolution stage of the first cycle on store 1
EvolutionThread ==
    [IdleThread EXCEPT !.pc = "evolution", !.kind = "run_cycle", !.store = 1,
                       !.goal = current_research_goal, !.iteration = 1,
                       !.cycles = 1]

InitEvolution ==
    /\ \E elos \in [1..TournamentSize -> EloChoices],
          actives \in [1..TournamentSize -> BOOLEAN] :
           InitWorld(RatedWorld(elos, actives))
    /\ next_session = 1
    /\ global_context = 1
    /\ \E top_k \in {None, 3} : current_research_goal = ResearchGoal(1, None, top_k)
    /\ threads = [t \in Threads |-> IF t = 1 THEN EvolutionThread ELSE IdleThread]
    /\ collaborators = "reliable"

\* the evolution stage of the cycle thread t is in; the thread goes on to
\* the evolution stage of the next cycle, or ends with the error when the
\* stage raised
Evolve(t) ==
    LET th == threads[t]
    IN  /\ th.pc = "evolution"
        /\ th.iteration <= MaxCycles
        /\ \E new_id \in generate_unique_id(World) :
               LET r == evolution_stage(World, th.store, th.goal, new_id,
                                        call_llm(<<"choice">>, 1))
               IN  IF r.raised
                   THEN /\ threads' = [threads EXCEPT ![t] =
                                          [th EXCEPT !.pc = "idle",
                                                     !.response = RaisedResponse(th)]]
                        /\ UNCHANGED <<stores, db_hypotheses, db_tournament_results,
                                       db_meta_reviews, db_paper_references>>
                   ELSE /\ SetWorld(r.world)
                        /\ threads' = [threads EXCEPT ![t].iteration = @ + 1,
                                                      ![t].cycles = @ + 1]
        /\ ApiFrame

NextEvolution == Evolve(1)

SpecEvolution == InitEvolution /\ [][NextEvolution]_vars

-----------------------------------------------------------------------------
(* The proximity stage of a cycle on one store.  The population it finds   *)
(* is drawn from a bounded set: TournamentSize hypotheses, each with one   *)
(* of the texts of ProximityTexts and active or not.  The embedding        *)
(* collaborator may fail in one similarity_score call of the stage.        *)

\* the store of session 1 after n hypotheses with the texts given were added
RECURSIVE TextWorld(_, _)
TextWorld(texts, n) ==
    IF n = 0
    THEN [EmptyWorld EXCEPT !.stores[1] = ContextMemory(<<>>, 1)]
    ELSE add_hypothesis(TextWorld(texts, n - 1), 1, Hypothesis(n, texts[n]))

\* that store with the flags given
ProximityWorld(texts, actives) ==
    [TextWorld(texts, TournamentSize) EXCEPT
        !.stores[1].hypotheses =
            [i \in 1..TournamentSize |-> [@[i] EXCEPT !.is_active = actives[i]]]]

\* a request thread in the proximity stage of the first cycle on store 1
ProximityThread ==
    [IdleThread EXCEPT !.pc = "proximity", !.kind = "run_cycle", !.store = 1,
                       !.goal = current_research_goal, !.iteration = 1,
                       !.cycles = 1]

InitProximity ==
    /\ \E texts \in [1..TournamentSize -> ProximityTexts],
          actives \in [1..TournamentSize -> BOOLEAN] :
           InitWorld(ProximityWorld(texts, actives))
    /\ next_session = 1
    /\ global_context = 1
    /\ current_research_goal = ResearchGoal(1, None, None)
    /\ threads = [t \in Threads |-> IF t = 1 THEN ProximityThread ELSE IdleThread]
    /\ collaborators = "failing"

NextProximity == Proximity(1)

SpecProximity == InitProximity /\ [][NextProximity]_vars

-----------------------------------------------------------------------------
(* Reference tracking: the arXiv identifiers of a text that belongs to a   *)
(* hypothesis are extracted and linked to it.  The extraction is the one   *)
(* of tests/test_agents.py; the link is DatabaseManager's                  *)
(* save_hypothesis_paper_reference.  A text is a sequence of tokens: a     *)
(* token is some other word, a modern identifier written with the prefix   *)
(* (arXiv:2301.12345), with prefix and version (arXiv:2301.12345v2) or     *)
(* bare (2301.12345), or a legacy identifier with the prefix               *)
(* (arXiv:cs/0701001).                                                     *)

ModernIds == {"2301.12345", "2302.54321"}

LegacyIds == {"cs/0701001"}

\* how a token is written
TokenKinds == {"word", "prefixed", "versioned", "bare", "legacy"}

Tokens ==
    {[kind |-> "word", id |-> ""]}
        \cup {[kind |-> k, id |-> i] : k \in {"prefixed", "versioned", "bare"},
                                      i \in ModernIds}
        \cup {[kind |-> "legacy", id |-> i] : i \in LegacyIds}

\* the texts of at most MaxTokens tokens
ReferenceTexts == UNION {[1..n -> Tokens] : n \in 0..MaxTokens}

\* arxiv_patterns, in the order they are applied: arXiv:(\d{4}\.\d{4,5}),
\* (\d{4}\.\d{4,5}) and arXiv:([a-z-]+/\d{7})
arxiv_patterns == <<"prefixed_modern", "modern", "prefixed_legacy">>

\* whether the pattern matches at a token: the first pattern matches an
\* identifier after the prefix (a version behind it is outside the group),
\* the second every modern identifier, also one with a prefix before it,
\* the third a legacy identifier after the prefix
Matches(pattern, token) ==
    CASE pattern = "prefixed_modern" -> token.kind \in {"prefixed", "versioned"}
      [] pattern = "modern"          -> token.kind \in {"prefixed", "versioned", "bare"}
      [] pattern = "prefixed_legacy" -> token.kind = "legacy"

\* re.findall(pattern, text, re.IGNORECASE): the groups of the matches from
\* the left to the right of the text
RECURSIVE findall(_, _)
findall(pattern, text) ==
    IF text = <<>> THEN <<>>
    ELSE (IF Matches(pattern, Head(text)) THEN <<Head(text).id>> ELSE <<>>)
             \o findall(pattern, Tail(text))

\* a test for '/' that finds none
HasSlash_never(match) == FALSE

\* '/' in match
HasSlash(match) == match \in LegacyIds

\* the matches of the patterns from the k-th on, one pattern after the
\* other, without the matches of the old format
RECURSIVE append_matches(_, _)
append_matches(text, k) ==
    IF k > Len(arxiv_patterns) THEN <<>>
    ELSE SelectSeq(findall(arxiv_patterns[k], text), LAMBDA match : ~HasSlash(match))
             \o append_matches(text, k + 1)

\* list(dict.fromkeys(ids)): every value once, where it is first
RECURSIVE fromkeys(_)
fromkeys(ids) ==
    IF ids = <<>> THEN <<>>
    ELSE LET before == fromkeys(SubSeq(ids, 1, Len(ids) - 1))
             last == ids[Len(ids)]
         IN  IF last \in SeqToSet(before) THEN before ELSE Append(before, last)

\* found_ids of a text
found_ids(text) == fromkeys(append_matches(text, 1))

\* the source tags
Sources == {"generation", "reflection"}

\* reference_type left at the default of save_hypothesis_paper_reference
reference_type_default(source) == "citation"

\* generation -> inspiration, reflection -> citation
reference_type(source) == IF source = "generation" THEN "inspiration" ELSE "citation"

\* the added_by of a source tag
added_by_of(source) == IF source = "generation" THEN "llm_generation" ELSE "llm_reflection"

\* save_hypothesis_paper_reference, the SELECT: whether the table holds a
\* row for the pair (hypothesis_id, arxiv_id)
select_reference(w, hypothesis_id, arxiv_id) ==
    \E r \in 1..Len(w.db_paper_references) :
        /\ w.db_paper_references[r].hypothesis_id = hypothesis_id
        /\ w.db_paper_references[r].arxiv_id = arxiv_id

\* save_hypothesis_paper_reference, after the SELECT: INSERT and commit
\* unless the SELECT had fetched a row
insert_reference(w, hypothesis_id, arxiv_id, type, added_by, fetched) ==
    IF fetched THEN w
    ELSE [w EXCEPT !.db_paper_references =
             Append(@, [hypothesis_id |-> hypothesis_id, arxiv_id |-> arxiv_id,
                        reference_type |-> type, added_by |-> added_by])]

\* DatabaseManager.save_hypothesis_paper_reference, called with no other
\* call between its SELECT and its INSERT
save_hypothesis_paper_reference(w, hypothesis_id, arxiv_id, type, added_by) ==
    insert_reference(w, hypothesis_id, arxiv_id, type, added_by,
                     select_reference(w, hypothesis_id, arxiv_id))

\* the identifiers from the n-th on are linked to the hypothesis
RECURSIVE link_references(_, _, _, _, _)
link_references(w, hypothesis_id, ids, source, n) ==
    IF n > Len(ids) THEN w
    ELSE link_references(
             save_hypothesis_paper_reference(w, hypothesis_id, ids[n],
                                             reference_type(source), added_by_of(source)),
             hypothesis_id, ids, source, n + 1)

\* a thread about to track the references of a text of hypothesis 1
TrackingThread(text, source) ==
    [IdleThread EXCEPT !.pc = "track_references", !.kind = "run_cycle", !.store = 1,
                       !.references = text, !.source = source]

InitReferences ==
    /\ InitWorld(PopulatedWorld(1))
    /\ next_session = 1
    /\ global_context = 1
    /\ current_research_goal = ResearchGoal(1, None, None)
    /\ \E text \in ReferenceTexts, source \in Sources :
           threads = [t \in Threads |-> IF t = 1 THEN TrackingThread(text, source)
                                        ELSE IdleThread]
    /\ collaborators = "reliable"

\* thread t extracts the identifiers of its text and links them to the
\* first hypothesis of its store
TrackPaperReferences(t) ==
    LET th == threads[t]
        ids == found_ids(th.references)
        hypothesis_id == stores[th.store].hypotheses[1].hypothesis_id
    IN  /\ th.pc = "track_references"
        /\ SetWorld(link_references(World, hypothesis_id, ids, th.source, 1))
        /\ threads' = [threads EXCEPT ![t].pc = "idle", ![t].found_ids = ids]
        /\ ApiFrame

NextReferences == TrackPaperReferences(1)

SpecReferences == InitReferences /\ [][NextReferences]_vars

-----------------------------------------------------------------------------
(* Manual links: PUT /sessions/{session_id}/hypotheses/{hypothesis_id}/    *)
(* papers/{arxiv_id} (link_paper_to_hypothesis, app/api.py).  The endpoint *)
(* is a plain function, which the web framework runs on a worker thread,   *)
(* so two requests can be under way at once; every DatabaseManager call    *)
(* opens a connection of its own.  The tables arxiv_papers and logs, which *)
(* the endpoint also writes, are left out.                                 *)

valid_types == {"inspiration", "citation", "background", "contradiction"}

\* the reference_type values of the requests
RequestedTypes == {"citation", "background", "review"}

\* the endpoint's answer with the status given
LinkResponse(status) == [NoResponse EXCEPT !.status = status]

\* link_paper_to_hypothesis up to save_hypothesis_paper_reference: 404 for
\* a session or a hypothesis that is not there, 400 for a reference_type
\* that is not valid
LinkPaperToHypothesis(t, session_id, hypothesis_id, arxiv_id, type) ==
    LET th == threads[t]
        hypotheses == get_session_hypotheses(db_hypotheses, session_id, FALSE)
        InFlight == Cardinality({u \in Threads : threads[u].link # NoLink})
        status == IF session_id > next_session THEN "404"
                  ELSE IF hypothesis_id \notin SeqToSet(IdsOf(hypotheses)) THEN "404"
                  ELSE IF type \notin valid_types THEN "400" ELSE "200"
    IN  /\ th.pc = "idle"
        /\ Len(db_paper_references) + InFlight < MaxLinks
        /\ threads' = [threads EXCEPT ![t] =
                          IF status = "200"
                          THEN [IdleThread EXCEPT
                                   !.pc = "select_reference", !.kind = "link_paper",
                                   !.link = [hypothesis_id |-> hypothesis_id,
                                             arxiv_id |-> arxiv_id,
                                             reference_type |-> type,
                                             fetched |-> FALSE]]
                          ELSE [IdleThread EXCEPT !.kind = "link_paper",
                                                  !.response = LinkResponse(status)]]
        /\ UNCHANGED <<stores, db_hypotheses, db_tournament_results, db_meta_reviews,
                       db_paper_references>>
        /\ ApiFrame

\* save_hypothesis_paper_reference of thread t, the SELECT
SelectReference(t) ==
    LET th == threads[t]
    IN  /\ th.pc = "select_reference"
        /\ threads' = [threads EXCEPT
                          ![t].pc = "insert_reference",
                          ![t].link.fetched =
                              select_reference(World, th.link.hypothesis_id,
                                               th.link.arxiv_id)]
        /\ UNCHANGED <<stores, db_hypotheses, db_tournament_results, db_meta_reviews,
                       db_paper_references>>
        /\ ApiFrame

\* save_hypothesis_paper_reference of thread t, the INSERT with its commit,
\* and the answer of the endpoint
InsertReference(t) ==
    LET th == threads[t]
    IN  /\ th.pc = "insert_reference"
        /\ SetWorld(insert_reference(World, th.link.hypothesis_id, th.link.arxiv_id,
                                     th.link.reference_type, "user", th.link.fetched))
        /\ threads' = [threads EXCEPT ![t] =
                          [IdleThread EXCEPT !.kind = "link_paper",
                                             !.response = LinkResponse("200")]]
        /\ ApiFrame

InitLinking ==
    /\ InitWorld(PopulatedWorld(1))
    /\ next_session = 1
    /\ global_context = 1
    /\ current_research_goal = ResearchGoal(1, None, None)
    /\ threads = [t \in Threads |-> IdleThread]
    /\ collaborators = "reliable"

NextLinking ==
    \E t \in Threads :
        \/ \E session_id \in Sessions, hypothesis_id \in HIds, arxiv_id \in ModernIds,
              type \in RequestedTypes :
               LinkPaperToHypothesis(t, session_id, hypothesis_id, arxiv_id, type)
        \/ SelectReference(t)
        \/ InsertReference(t)

SpecLinking == InitLinking /\ [][NextLinking]_vars

-----------------------------------------------------------------------------
(* One ranking stage from its first pair to its end, over a population in  *)
(* which hypotheses may be inactive: TournamentSize first-generation       *)
(* hypotheses at the initial rating, each active or not.  The stage ends   *)
(* when no pair is left to judge.                                          *)

InitRankingStage ==
    /\ \E actives \in [1..TournamentSize -> BOOLEAN] :
           InitWorld(RatedWorld([i \in 1..TournamentSize |-> InitialElo], actives))
    /\ next_session = 1
    /\ global_context = 1
    /\ current_research_goal = ResearchGoal(None, None, None)
    /\ threads = [t \in Threads |-> IF t = 1 THEN RankingThread ELSE IdleThread]
    /\ collaborators = "reliable"

\* the tournament of thread t has judged every pair: the stage is reported
\* and the cycle goes on
FinishRanking(t) ==
    LET th == threads[t]
    IN  /\ th.pc = "ranking"
        /\ JudgedPairs(t) = SeqToSet(TournamentPairs(stores[th.store]))
        /\ threads' = [threads EXCEPT
                          ![t].pc = NextStage("ranking"),
                          ![t].steps = Append(@, [name |-> "ranking", error |-> FALSE,
                                                  payload |-> <<>>])]
        /\ UNCHANGED <<stores, db_hypotheses, db_tournament_results, db_meta_reviews,
                       db_paper_references>>
        /\ ApiFrame

NextRankingStage ==
    \/ \E i, j \in 1..TournamentSize, decision \in Decisions : JudgePair(1, i, j, decision)
    \/ FinishRanking(1)

SpecRankingStage == InitRankingStage /\ [][NextRankingStage]_vars

-----------------------------------------------------------------------------
(* One call_llm call, for every setting of the configuration and of the    *)
(* environment and for every behaviour of the API in max_retries attempts. *)

\* a thread about to call call_llm
CallingThread(setting, outcomes) ==
    [IdleThread EXCEPT !.pc = "call_llm",
                       !.llm_call = [setting |-> setting, outcomes |-> outcomes,
                                     run |-> FirstRun]]

InitCallLLM ==
    /\ InitWorld(EmptyWorld)
    /\ next_session = 0
    /\ global_context = 0
    /\ current_research_goal = NoGoal
    /\ \E setting \in LLMSettings, outcomes \in [1..max_retries -> Attempts] :
           threads = [t \in Threads |-> IF t = 1 THEN CallingThread(setting, outcomes)
                                        ELSE IdleThread]
    /\ collaborators = "failing"

\* thread t calls call_llm
CallLLM(t) ==
    LET th == threads[t]
    IN  /\ th.pc = "call_llm"
        /\ threads' = [threads EXCEPT
                          ![t].pc = "idle",
                          ![t].llm_call.run = call_llm_run(th.llm_call.setting,
                                                           th.llm_call.outcomes)]
        /\ UNCHANGED <<stores, db_hypotheses, db_tournament_results, db_meta_reviews,
                       db_paper_references>>
        /\ ApiFrame

NextCallLLM == CallLLM(1)

SpecCallLLM == InitCallLLM /\ [][NextCallLLM]_vars

-----------------------------------------------------------------------------
(* Claims *)

\* thread t has handed back the report of a cycle
Reported(th) == th.pc = "idle" /\ th.response.status = "200" /\ ~th.response.error

StepNames(steps) == [i \in 1..Len(steps) |-> steps[i].name]

Completes(t) ==
    /\ threads[t].pc = "meta_review"
    /\ threads'[t].pc = "idle"
    /\ ~threads'[t].response.error

\* C2: a store starts at iteration_number 0; every cycle that completes
\* raises the iteration_number of its store by exactly 1 and reports the new
\* value, which is the value before the cycle plus 1; and nothing but a
\* completing cycle changes the iteration_number of a store.
C2_IterationCounts ==
    [][/\ \A h \in Handles :
              IF stores[h] = NoStore
              THEN stores'[h] # NoStore => stores'[h].iteration_number = 0
              ELSE stores'[h].iteration_number # stores[h].iteration_number
                       => \E t \in Threads : Completes(t) /\ threads[t].store = h
       /\ \A t \in Threads :
              Completes(t) =>
                  LET h == threads[t].store
                  IN  /\ stores'[h].iteration_number = stores[h].iteration_number + 1
                      /\ threads'[t].response.iteration = stores'[h].iteration_number
                      /\ threads'[t].response.iteration = threads[t].iteration
      ]_vars

\* C3: when the collaborator call of a stage fails on every attempt, that
\* step of the cycle records the stage with its error, and the cycle goes on
\* with the next stage (after MetaReview: hands back its report); the report
\* of a completed cycle has one entry for each of the eight stage names,
\* each with its error field, set exactly for the stages whose call failed.
C3_FailureDegrades ==
    [][\A t \in Threads :
           LET th == threads[t]
               after == threads'[t]
           IN  /\ (Running(t) /\ after.failed # th.failed) =>
                      /\ after.failed = th.failed \cup {th.pc}
                      /\ Len(after.steps) = Len(th.steps) + 1
                      /\ SubSeq(after.steps, 1, Len(th.steps)) = th.steps
                      /\ after.steps[Len(after.steps)].name = th.pc
                      /\ after.steps[Len(after.steps)].error
                      /\ after.pc = IF th.pc = "meta_review" THEN "idle"
                                    ELSE step_order[Len(th.steps) + 2]
                      /\ ~after.response.error
               /\ Completes(t) =>
                      /\ StepNames(after.response.steps) = step_order
                      /\ \A i \in 1..Len(after.response.steps) :
                             /\ after.response.steps[i].error \in BOOLEAN
                             /\ after.response.steps[i].error
                                    <=> after.response.steps[i].name \in after.failed
      ]_vars

\* C3 witness: a cycle whose first stage failed has handed back a report
\* with all eight stages
C3_Witness ==
    \E t \in Threads :
        /\ Reported(threads[t])
        /\ Len(threads[t].response.steps) = 8
        /\ threads[t].response.steps[1].error
        /\ threads[t].failed = {"generation"}

\* the parameters the data model allows
ValidGoal(goal) ==
    /\ goal.num_hypotheses >= 1
    /\ goal.elo_k_factor >= 1
    /\ goal.top_k_hypotheses >= 2

\* C4: a goal with invalid parameters never becomes the current goal and no
\* run_cycle execution ever runs a stage for one.
C4_InvalidGoalRejected ==
    /\ current_research_goal # NoGoal => ValidGoal(current_research_goal)
    /\ \A t \in Threads :
           (Running(t) \/ threads[t].steps # <<>>) => ValidGoal(threads[t].goal)

\* C5: no two run_cycle executions are in progress on one store, and the
\* store of a running cycle is the one the global holds.
C5_CyclesSerialized ==
    /\ \A t1, t2 \in Threads :
           (t1 # t2 /\ Running(t1) /\ Running(t2))
               => threads[t1].store # threads[t2].store
    /\ \A t \in Threads : Running(t) => threads[t].store = global_context

\* what can be observed for session a: its store and its rows in the database
ObservableFor(a) ==
    [hypotheses              |-> stores[a].hypotheses,
     tournament_results      |-> stores[a].tournament_results,
     meta_review_feedback    |-> stores[a].meta_review_feedback,
     iteration_number        |-> stores[a].iteration_number,
     persisted_hypotheses    |-> get_session_hypotheses(db_hypotheses, a, FALSE),
     persisted_tournament    |-> db_tournament_results[a],
     persisted_meta_reviews  |-> db_meta_reviews[a]]

\* C6: sessions are independent: whenever a step changes what can be
\* observed for a session (its hypotheses, its histories, its iteration
\* number, in memory or persisted), the step is an operation on that
\* session's own store.
C6_SessionsIndependent ==
    [][\A a \in Sessions :
           ObservableFor(a)' # ObservableFor(a) => StoreStep(a)]_vars

\* the hypothesis objects a caller may hand to add_hypothesis of store h: a
\* new object, an object the store holds, or such an object after the caller
\* changed its is_active
AddCandidates(h) ==
    {Hypothesis(hypothesis_id, text) : hypothesis_id \in HIds, text \in Texts}
        \cup SeqToSet(stores[h].hypotheses)
        \cup {[hyp EXCEPT !.is_active = ~@] : hyp \in SeqToSet(stores[h].hypotheses)}

RowsWithId(rows, hypothesis_id) ==
    {i \in 1..Len(rows) : rows[i].hypothesis_id = hypothesis_id}

C8_NothingDeleted ==
    [][\A h \in Sessions :
           LET old == stores[h]
               new == stores'[h]
               active == get_active_hypotheses(new)
           IN  /\ HypothesisIds(old) \subseteq HypothesisIds(new)
               /\ Len(new.hypotheses) >= Len(old.hypotheses)
               /\ RowIds(db_hypotheses) \subseteq RowIds(db_hypotheses')
               /\ \A i \in 1..Len(old.hypotheses) :
                      LET id == old.hypotheses[i].hypothesis_id
                          j == IndexOf(new, id)
                      IN  (old.hypotheses[i].is_active /\ ~new.hypotheses[j].is_active)
                              => /\ new.hypotheses[j].hypothesis_id = id
                                 /\ \A k \in 1..Len(active) :
                                        active[k].hypothesis_id # id
               /\ SeqToSet(active) = {hyp \in SeqToSet(new.hypotheses) : hyp.is_active}
               /\ \A k \in 1..Len(active) : active[k].is_active
       ]_vars

\* C8 witness: a store holds an active and an inactive hypothesis
C8_Witness ==
    /\ Len(stores[1].hypotheses) = 2
    /\ Len(get_active_hypotheses(stores[1])) = 1
    /\ ~stores[1].hypotheses[2].is_active

IsPrefix(s, t) == Len(s) <= Len(t) /\ SubSeq(t, 1, Len(s)) = s

\* C9: in every step the two histories of every store, in memory and
\* persisted, keep all their entries at their positions with their values
\* and grow by at most one entry; and a save_tournament_result or
\* save_meta_review call in the current state puts exactly one record, with
\* the values given and the store's iteration number, after the entries
\* already there.
C9_AppendOnly ==
    [][\A h \in Sessions :
           LET old == stores[h]
               new == stores'[h]
               match == save_tournament_result(World, h, 1, 2, 1, InitialElo,
                                               InitialElo, 121600, 118400)
               review == save_meta_review(World, h, "c2", <<>>)
           IN  /\ IsPrefix(old.tournament_results, new.tournament_results)
               /\ IsPrefix(old.meta_review_feedback, new.meta_review_feedback)
               /\ IsPrefix(db_tournament_results[h], db_tournament_results'[h])
               /\ IsPrefix(db_meta_reviews[h], db_meta_reviews'[h])
               /\ Len(new.tournament_results) + Len(new.meta_review_feedback)
                      <= Len(old.tournament_results) + Len(old.meta_review_feedback) + 1
               /\ Len(db_tournament_results'[h]) = Len(new.tournament_results)
               /\ Len(db_meta_reviews'[h]) = Len(new.meta_review_feedback)
               /\ match.stores[h].tournament_results =
                      Append(old.tournament_results,
                             [hypothesis1_id |-> 1, hypothesis2_id |-> 2, winner_id |-> 1,
                              old_elo1 |-> InitialElo, old_elo2 |-> InitialElo,
                              new_elo1 |-> 121600, new_elo2 |-> 118400,
                              iteration |-> old.iteration_number])
               /\ match.stores[h].meta_review_feedback = old.meta_review_feedback
               /\ review.stores[h].meta_review_feedback =
                      Append(old.meta_review_feedback,
                             [critique |-> "c2", suggested_next_steps |-> <<>>,
                              iteration |-> old.iteration_number])
               /\ review.stores[h].tournament_results = old.tournament_results
       ]_vars

\* C9 witness: a store holds two different meta-reviews, saved one after the
\* other, and a hypothesis that was deactivated
C9_Witness ==
    /\ Len(stores[1].meta_review_feedback) = 2
    /\ stores[1].meta_review_feedback[1] # stores[1].meta_review_feedback[2]
    /\ Len(db_meta_reviews[1]) = 2
    /\ \E i \in 1..Len(stores[1].hypotheses) : ~stores[1].hypotheses[i].is_active

\* the rating a match record gives the hypothesis with this id before and
\* after the match
OldEloOf(result, hypothesis_id) ==
    IF result.hypothesis1_id = hypothesis_id THEN result.old_elo1 ELSE result.old_elo2

NewEloOf(result, hypothesis_id) ==
    IF result.hypothesis1_id = hypothesis_id THEN result.new_elo1 ELSE result.new_elo2

LoserOf(result) ==
    IF result.winner_id = result.hypothesis1_id
    THEN result.hypothesis2_id ELSE result.hypothesis1_id

EloOfId(store, hypothesis_id) ==
    store.hypotheses[IndexOf(store, hypothesis_id)].elo_score

\* C10: every recorded decided match raised the winner's rating and lowered
\* the loser's, each by more than nothing and by less than K points; from
\* equal ratings both moved by the same amount (1200 against 1200 with K = 32
\* gives 1216 and 1184); and the latest match left exactly the recorded new
\* ratings in the two hypotheses.
C10_EloSymmetry ==
    LET store == stores[1]
        k == current_research_goal.elo_k_factor
        n == Len(store.tournament_results)
    IN  /\ \A m \in 1..n :
               LET r == store.tournament_results[m]
                   gain == NewEloOf(r, r.winner_id) - OldEloOf(r, r.winner_id)
                   loss == OldEloOf(r, LoserOf(r)) - NewEloOf(r, LoserOf(r))
               IN  /\ gain > 0 /\ gain < k * EloScale
                   /\ loss > 0 /\ loss < k * EloScale
                   /\ (r.old_elo1 = r.old_elo2 => gain = loss)
                   /\ (r.old_elo1 = InitialElo /\ r.old_elo2 = InitialElo /\ k = 32
                          => /\ NewEloOf(r, r.winner_id) = 121600
                             /\ NewEloOf(r, LoserOf(r)) = 118400)
        /\ n > 0 =>
               LET r == store.tournament_results[n]
               IN  /\ EloOfId(store, r.hypothesis1_id) = r.new_elo1
                   /\ EloOfId(store, r.hypothesis2_id) = r.new_elo2

\* C10 witness: a first match from 1200 against 1200 with K = 32 and a later
\* match between hypotheses of different ratings are on record
C10_Witness ==
    LET tr == stores[1].tournament_results
    IN  /\ current_research_goal.elo_k_factor = 32
        /\ Len(tr) >= 2
        /\ tr[1].old_elo1 = InitialElo /\ tr[1].old_elo2 = InitialElo
        /\ \E m \in 1..Len(tr) : tr[m].old_elo1 # tr[m].old_elo2

\* thread t judges one more pair in this step
JudgesPair(t) == Len(threads'[t].judged) = Len(threads[t].judged) + 1

\* the judgment of the pair judged last by a thread
LastJudged(th) == th.judged[Len(th.judged)]

\* the ratings of a store, by position
EloScores(store) == [i \in 1..Len(store.hypotheses) |-> store.hypotheses[i].elo_score]

\* C11: when the judgment of a pair is no decision, the step changes the
\* elo_score of no hypothesis and appends no match record, neither to the
\* tournament_results of the store nor to the table.
C11_NoDecisionNoChange ==
    [][\A t \in Threads :
           (JudgesPair(t) /\ LastJudged(threads'[t]).decision = "none") =>
               LET h == threads[t].store
               IN  /\ EloScores(stores'[h]) = EloScores(stores[h])
                   /\ stores'[h].tournament_results = stores[h].tournament_results
                   /\ db_tournament_results' = db_tournament_results
      ]_vars

\* C11 witness: a pair of hypotheses with different ratings was judged
\* without a decision after a decided match
C11_Witness ==
    \E t \in Threads :
        LET th == threads[t]
        IN  /\ Len(th.judged) >= 2
            /\ LastJudged(th).decision = "none"
            /\ th.judged[1].decision # "none"
            /\ Len(stores[th.store].tournament_results) = Len(th.judged) - 1
            /\ stores[th.store].hypotheses[LastJudged(th).pair[1]].elo_score
                   # stores[th.store].hypotheses[LastJudged(th).pair[2]].elo_score

\* the judgment a thread's tournament got for a pair it has judged
DecisionOf(th, pair) ==
    th.judged[CHOOSE m \in 1..Len(th.judged) : th.judged[m].pair = pair].decision

\* the tournament that judges the pairs from the m-th on in the order of
\* the sequence, each pair with the judgment that thread th got for it
RECURSIVE TournamentInOrder(_, _, _, _, _, _)
TournamentInOrder(w, h, pairs, th, k, m) ==
    IF m > Len(pairs) THEN w
    ELSE TournamentInOrder(judge_pair(w, h, pairs[m][1], pairs[m][2],
                                      DecisionOf(th, pairs[m]), k),
                           h, pairs, th, k, m + 1)

\* the rounding allowed between two orders: two rating units (0.02 points)
\* for every match
EloTolerance == 2 * MaxMatches

\* C12: when a tournament has judged every pair of the active set, the
\* rating of every hypothesis is, within the rounding tolerance, the rating
\* it has after the tournament that starts from the same ratings and judges
\* the pairs in the order of the two nested loops with the same judgment
\* for every pair.
C12_OrderIndependent ==
    \A t \in Threads :
        LET th == threads[t]
            h == th.store
            start == PopulatedWorld(TournamentSize)
            pairs == TournamentPairs(start.stores[1])
        IN  (th.pc = "ranking" /\ h = 1 /\ JudgedPairs(t) = SeqToSet(pairs)) =>
                LET reference == TournamentInOrder(start, h, pairs, th,
                                                   th.goal.elo_k_factor, 1)
                IN  \A i \in 1..Len(stores[h].hypotheses) :
                        Abs(stores[h].hypotheses[i].elo_score
                                - reference.stores[h].hypotheses[i].elo_score)
                            <= EloTolerance

\* the records among the first n of a history that involve a hypothesis
RecordsOf(tr, hypothesis_id, n) ==
    {m \in 1..n : hypothesis_id \in {tr[m].hypothesis1_id, tr[m].hypothesis2_id}}

\* the rating the first n records of a history leave a hypothesis with: the
\* new rating of its latest match, the initial rating when it has none
RatingAfter(tr, hypothesis_id, n) ==
    LET ms == RecordsOf(tr, hypothesis_id, n)
    IN  IF ms = {} THEN InitialElo
        ELSE NewEloOf(tr[CHOOSE m \in ms : \A other \in ms : other <= m], hypothesis_id)

\* the decided judgments of a thread's tournament, in order
DecidedPairs(th) ==
    LET IsDecided(entry) == entry.decision # "none"
    IN  SelectSeq(th.judged, IsDecided)

WithTexts(store, texts) ==
    [store EXCEPT !.hypotheses =
        [i \in 1..Len(store.hypotheses) |-> [@[i] EXCEPT !.text = texts[i]]]]

\* C14: the parent pool holds active hypotheses of the store, each once, as
\* many as top_k_hypotheses (all of them when there are fewer); it is in
\* order of falling elo_score, equal scores in order of rising id; every
\* active hypothesis outside the pool comes after every one inside in that
\* order; whatever the texts of the hypotheses are, the pool has the same
\* ids; and over H1 at 1300, H2 at 1250, H3 at 1200 with top_k = 2 it is
\* H1, H2.
C14_ParentPool ==
    \A h \in Sessions :
        stores[h] # NoStore =>
            LET store == stores[h]
                top_k == current_research_goal.top_k_hypotheses
                active == get_active_hypotheses(store)
                pool == select_parents(store, top_k)
                n == Len(store.hypotheses)
                Precedes(a, b) ==
                    \/ a.elo_score > b.elo_score
                    \/ a.elo_score = b.elo_score /\ a.hypothesis_id < b.hypothesis_id
            IN  /\ Len(pool) = IF Len(active) < top_k THEN Len(active) ELSE top_k
                /\ \A i \in 1..Len(pool) :
                       \E p \in 1..n : store.hypotheses[p] = pool[i]
                                       /\ store.hypotheses[p].is_active
                /\ \A i, j \in 1..Len(pool) : i < j => Precedes(pool[i], pool[j])
                /\ \A i \in 1..Len(pool), p \in 1..n :
                       (store.hypotheses[p].is_active
                            /\ store.hypotheses[p].hypothesis_id \notin SeqToSet(IdsOf(pool)))
                           => Precedes(pool[i], store.hypotheses[p])
                /\ \A texts \in [1..n -> Texts] :
                       IdsOf(select_parents(WithTexts(store, texts), top_k)) = IdsOf(pool)
                /\ (/\ top_k = 2
                    /\ IdsOf(active) = <<EarlierId(1), EarlierId(2), EarlierId(3)>>
                    /\ EloScores(store) = <<130000, 125000, 120000>>)
                       => IdsOf(pool) = <<EarlierId(1), EarlierId(2)>>

\* C14 witness: the pool of two is chosen among three active hypotheses of
\* which the two lower-rated are tied, and the store also holds an offspring
C14_Witness ==
    LET store == stores[1]
    IN  /\ current_research_goal.top_k_hypotheses = 2
        /\ Len(store.hypotheses) > TournamentSize
        /\ store.hypotheses[1].is_active /\ store.hypotheses[2].is_active
        /\ store.hypotheses[3].is_active
        /\ store.hypotheses[1].elo_score = store.hypotheses[2].elo_score
        /\ store.hypotheses[3].elo_score > store.hypotheses[1].elo_score
        /\ IdsOf(select_parents(store, 2)) = <<EarlierId(3), EarlierId(1)>>

\* the step adds a hypothesis to store h
AddsHypothesis(h) ==
    /\ stores[h] # NoStore
    /\ Len(stores'[h].hypotheses) = Len(stores[h].hypotheses) + 1

\* the hypothesis a step has added to store h
Added(h) == stores'[h].hypotheses[Len(stores'[h].hypotheses)]

\* C15: a hypothesis that an evolution stage adds to the store has a fresh
\* id, elo_score 1200.0, is_active true and, as parent_ids, the ids of the
\* whole parent pool selected from the store as it was, in the order of the
\* pool; the first-generation hypotheses of the store have no parent_ids.
C15_OffspringFields ==
    [][\A t \in Threads :
           LET h == threads[t].store
               pool == select_parents(stores[h], threads[t].goal.top_k_hypotheses)
           IN  /\ (threads[t].pc = "evolution" /\ AddsHypothesis(h)) =>
                      /\ Added(h).hypothesis_id \notin HypothesisIds(stores[h])
                      /\ Added(h).elo_score = InitialElo
                      /\ Added(h).is_active
                      /\ Added(h).parent_ids = IdsOf(pool)
                      /\ Len(Added(h).parent_ids) >= 2
                      /\ Len(Added(h).parent_ids) =
                             IF Len(get_active_hypotheses(stores[h]))
                                    < threads[t].goal.top_k_hypotheses
                             THEN Len(get_active_hypotheses(stores[h]))
                             ELSE threads[t].goal.top_k_hypotheses
               /\ threads[t].pc = "evolution" =>
                      \A i \in 1..TournamentSize :
                          /\ stores[h].hypotheses[i].parent_ids = <<>>
                          /\ stores'[h].hypotheses[i].parent_ids = <<>>
      ]_vars

\* C15 witness: with top_k = 3, a second offspring whose three parents
\* include the first offspring, beside an active hypothesis that is not a
\* parent of it
C15_Witness ==
    LET store == stores[1]
        n == Len(store.hypotheses)
    IN  /\ n = TournamentSize + 2
        /\ current_research_goal.top_k_hypotheses = 3
        /\ Len(store.hypotheses[n].parent_ids) = 3
        /\ store.hypotheses[n - 1].hypothesis_id \in SeqToSet(store.hypotheses[n].parent_ids)
        /\ store.hypotheses[n].elo_score = InitialElo
        /\ \E i \in 1..TournamentSize :
               /\ store.hypotheses[i].is_active
               /\ store.hypotheses[i].hypothesis_id
                      \notin SeqToSet(store.hypotheses[n].parent_ids)

\* C16: an evolution stage leaves the is_active flag of every hypothesis of
\* the store as it was, so every hypothesis that was active still is; and
\* the active hypotheses after the stage are those before it followed by
\* the offspring the stage added.
C16_ParentsStayActive ==
    [][\A t \in Threads :
           LET h == threads[t].store
               before == stores[h]
               after == stores'[h]
           IN  threads[t].pc = "evolution" =>
                   /\ \A p \in 1..Len(before.hypotheses) :
                          /\ after.hypotheses[p].hypothesis_id
                                 = before.hypotheses[p].hypothesis_id
                          /\ after.hypotheses[p].is_active = before.hypotheses[p].is_active
                   /\ get_active_hypotheses(after) =
                          IF AddsHypothesis(h)
                          THEN Append(get_active_hypotheses(before), Added(h))
                          ELSE get_active_hypotheses(before)
      ]_vars

\* C16 witness: after two evolution stages the parents of the first
\* offspring are all still active, beside both offspring and an inactive
\* hypothesis
C16_Witness ==
    LET store == stores[1]
        n == Len(store.hypotheses)
    IN  /\ n = TournamentSize + 2
        /\ \A id \in SeqToSet(store.hypotheses[n - 1].parent_ids) :
               store.hypotheses[IndexOf(store, id)].is_active
        /\ store.hypotheses[n - 1].is_active /\ store.hypotheses[n].is_active
        /\ \E i \in 1..TournamentSize : ~store.hypotheses[i].is_active

\* the parents a store names for the hypothesis with an id
ParentsOf(store, hypothesis_id) ==
    IF hypothesis_id \in HypothesisIds(store)
    THEN SeqToSet(store.hypotheses[IndexOf(store, hypothesis_id)].parent_ids)
    ELSE {}

\* the ids reached from a set of ids by following parent_ids up to n times
RECURSIVE AncestorsFrom(_, _, _)
AncestorsFrom(store, ids, n) ==
    IF n = 0 THEN ids
    ELSE AncestorsFrom(store, ids \cup UNION {ParentsOf(store, id) : id \in ids}, n - 1)

\* the ancestors of a hypothesis: its parents, their parents, and so on
Ancestors(store, hypothesis_id) ==
    AncestorsFrom(store, ParentsOf(store, hypothesis_id), Len(store.hypotheses))

\* C17: in every store every id among the parent_ids of a hypothesis is the
\* id of a hypothesis that entered the store before it, and no hypothesis
\* is among its own ancestors.
C17_LineageAcyclic ==
    \A h \in Sessions :
        stores[h] # NoStore =>
            LET store == stores[h]
            IN  \A p \in 1..Len(store.hypotheses) :
                    /\ \A id \in SeqToSet(store.hypotheses[p].parent_ids) :
                           \E q \in 1..(p - 1) : store.hypotheses[q].hypothesis_id = id
                    /\ store.hypotheses[p].hypothesis_id
                           \notin Ancestors(store, store.hypotheses[p].hypothesis_id)

\* C17 witness: an offspring of an offspring, with four ancestors
C17_Witness ==
    LET store == stores[1]
        n == Len(store.hypotheses)
    IN  /\ n = TournamentSize + 2
        /\ store.hypotheses[n - 1].hypothesis_id \in SeqToSet(store.hypotheses[n].parent_ids)
        /\ Cardinality(Ancestors(store, store.hypotheses[n].hypothesis_id)) > 3

\* the proximity steps among the steps of thread th
ProximitySteps(th) == {m \in 1..Len(th.steps) : th.steps[m].name = "proximity"}

\* the entries of an adjacency list for the hypothesis id
EntriesFor(list, id) == {e \in 1..Len(list) : list[e].other_id = id}

\* the ids of the active hypotheses of a store
ActiveIds(store) == SeqToSet(IdsOf(get_active_hypotheses(store)))

\* C18: the adjacency structure the proximity stage reports is over the
\* active hypotheses, symmetric and without self-loops: for all active
\* hypotheses i # j, j is in i's list once, with the similarity with which i
\* is in j's list, and no hypothesis is in its own list.
C18_ProximitySymmetric ==
    \A t \in Threads : \A m \in ProximitySteps(threads[t]) :
        LET g == threads[t].steps[m].payload.adjacency_graph
            active == ActiveIds(stores[threads[t].store])
        IN  /\ DOMAIN g = active
            /\ \A i \in active : EntriesFor(g[i], i) = {}
            /\ \A i, j \in active :
                   i # j =>
                       /\ Cardinality(EntriesFor(g[i], j)) = 1
                       /\ \A a \in EntriesFor(g[i], j), b \in EntriesFor(g[j], i) :
                              g[i][a].similarity = g[j][b].similarity

\* the stage has reported an adjacency structure over TournamentSize active
\* hypotheses, some of them similar and some not
C18_Witness ==
    \E m \in ProximitySteps(threads[1]) :
        LET g == threads[1].steps[m].payload.adjacency_graph
        IN  /\ Cardinality(DOMAIN g) = TournamentSize
            /\ \E i, j \in DOMAIN g : \E a \in EntriesFor(g[i], j) :
                   g[i][a].similarity > 0 /\ g[i][a].similarity < FixedOne
            /\ \E i, j \in DOMAIN g : \E a \in EntriesFor(g[i], j) :
                   g[i][a].similarity = 0

\* C19: similarity_score returns 0.0 without asking for the embedding model
\* when one of the texts is empty or missing, and it never raises: a failure
\* of the embedding collaborator yields 0.0 as well, and the stage that
\* called it goes on.
C19_SimilarityDegrades ==
    \A t \in Threads :
        /\ ~threads[t].response.error
        /\ \A m \in ProximitySteps(threads[t]) :
               LET store == stores[threads[t].store]
                   pairs == TournamentPairs(store)
                   calls == threads[t].steps[m].payload.calls
               IN  /\ Len(calls) = Len(pairs)
                   /\ \A c \in 1..Len(calls) :
                          LET textA == store.hypotheses[pairs[c][1]].text
                              textB == store.hypotheses[pairs[c][2]].text
                          IN  /\ ~calls[c].raised
                              /\ (~Truthy(textA) \/ ~Truthy(textB)) =>
                                     /\ calls[c].similarity = 0
                                     /\ calls[c].model_requests = 0
                                     /\ calls[c].encoded = <<>>
                              /\ calls[c].failed => calls[c].similarity = 0

\* a stage in which one call had an empty or missing text and another met a
\* failure of the embedding collaborator
C19_Witness ==
    \E m \in ProximitySteps(threads[1]) :
        LET calls == threads[1].steps[m].payload.calls
        IN  /\ \E c \in 1..Len(calls) : calls[c].model_requests = 0
            /\ \E c \in 1..Len(calls) : calls[c].failed
            /\ threads[1].pc = "meta_review"

\* the modern identifiers that occur in a text
ModernIn(text) ==
    {text[p].id : p \in {q \in 1..Len(text) : text[q].kind \in {"prefixed", "versioned", "bare"}}}

\* the place of the first occurrence of an identifier in a text
FirstOccurrence(text, id) ==
    CHOOSE p \in 1..Len(text) :
        /\ text[p].id = id
        /\ \A q \in 1..(p - 1) : text[q].id # id

\* the thread has tracked the references of its text
Tracked(th) == th.source # "none" /\ th.pc = "idle"

\* C20: the identifiers extracted from a text are its modern identifiers as
\* bare ids, each once however often and in whichever form it occurs, in the
\* order of their first occurrences in the text, and each is linked once to
\* the hypothesis, in that order.
C20_FirstSeenOrder ==
    \A t \in Threads :
        Tracked(threads[t]) =>
            LET text == threads[t].references
                ids == threads[t].found_ids
            IN  /\ SeqToSet(ids) = ModernIn(text)
                /\ Cardinality(SeqToSet(ids)) = Len(ids)
                /\ \A a, b \in 1..Len(ids) :
                       a < b => FirstOccurrence(text, ids[a]) < FirstOccurrence(text, ids[b])
                /\ [r \in 1..Len(db_paper_references) |->
                       db_paper_references[r].arxiv_id] = ids

\* a text without its legacy identifiers
WithoutLegacy(text) == SelectSeq(text, LAMBDA token : token.kind # "legacy")

\* the arxiv_ids of the link rows, in the order of the rows
LinkedIds == [r \in 1..Len(db_paper_references) |-> db_paper_references[r].arxiv_id]

\* C21: legacy identifiers are never linked: no link row holds one, a text
\* without a modern identifier yields no identifier and no link, and the
\* identifiers extracted from a text and linked are those of the text
\* without its legacy identifiers.
C21_LegacyRejected ==
    \A t \in Threads :
        Tracked(threads[t]) =>
            LET text == threads[t].references
                ids == threads[t].found_ids
            IN  /\ \A r \in 1..Len(db_paper_references) :
                       db_paper_references[r].arxiv_id \notin LegacyIds
                /\ SeqToSet(ids) \cap LegacyIds = {}
                /\ ModernIn(text) = {} => ids = <<>> /\ db_paper_references = <<>>
                /\ ids = found_ids(WithoutLegacy(text))
                /\ LinkedIds = found_ids(WithoutLegacy(text))

\* a text with a legacy identifier before a modern one was tracked, and the
\* modern one is linked
C21_Witness ==
    /\ Tracked(threads[1])
    /\ Len(threads[1].references) >= 2
    /\ threads[1].references[1].kind = "legacy"
    /\ threads[1].references[2].kind = "bare"
    /\ Len(db_paper_references) = 1

\* C22: the reference_type of every link that reference tracking creates
\* follows from the source of the text alone: a link from generation
\* (added_by llm_generation) has reference_type inspiration, a link from
\* reflection (added_by llm_reflection) has reference_type citation.
C22_ReferenceTypeBySource ==
    \A t \in Threads :
        Tracked(threads[t]) =>
            \A r \in 1..Len(db_paper_references) :
                LET row == db_paper_references[r]
                IN  /\ threads[t].source = "generation" =>
                           row.added_by = "llm_generation" /\ row.reference_type = "inspiration"
                    /\ threads[t].source = "reflection" =>
                           row.added_by = "llm_reflection" /\ row.reference_type = "citation"

\* a generated text with two identifiers was tracked and both are linked
C22_Witness ==
    /\ Tracked(threads[1])
    /\ threads[1].source = "generation"
    /\ Len(db_paper_references) = 2
    /\ db_paper_references[2].reference_type = "inspiration"

\* the rows of the link table for the pair
LinksOf(rows, hypothesis_id, arxiv_id) ==
    {r \in 1..Len(rows) : /\ rows[r].hypothesis_id = hypothesis_id
                          /\ rows[r].arxiv_id = arxiv_id}

\* C23: linking is idempotent: whatever calls of
\* save_hypothesis_paper_reference there were, one after the other or at
\* once, the table holds at most one row for a pair (hypothesis_id,
\* arxiv_id), and no call changes a row that is there or adds a row for a
\* pair that has one.
C23_LinkIdempotent ==
    /\ [](\A hypothesis_id \in HIds, arxiv_id \in ModernIds :
              Cardinality(LinksOf(db_paper_references, hypothesis_id, arxiv_id)) <= 1)
    /\ [][/\ IsPrefix(db_paper_references, db_paper_references')
          /\ \A r \in (DOMAIN db_paper_references') \ (DOMAIN db_paper_references) :
                 LinksOf(db_paper_references, db_paper_references'[r].hypothesis_id,
                         db_paper_references'[r].arxiv_id) = {}]_vars

\* the judgments of a thread's tournament between the hypotheses at the
\* positions i and j, in either order
JudgmentsOf(th, i, j) ==
    {m \in 1..Len(th.judged) : th.judged[m].pair \in {<<i, j>>, <<j, i>>}}

\* C24: in a ranking stage no pair is judged twice and no hypothesis against
\* itself, inactive hypotheses are in no judgment and in no match record,
\* the store and the table hold exactly one match record for every decided
\* judgment, and when the stage ends every pair of distinct active
\* hypotheses has been judged exactly once, n (n - 1) / 2 judgments over n
\* active hypotheses.
C24_EveryPairOnce ==
    \A t \in Threads :
        LET th == threads[t]
            store == stores[th.store]
            tr == store.tournament_results
            active == SeqToSet(ActivePositions(store))
            n == Cardinality(active)
        IN  th.kind = "run_cycle" =>
                /\ \A m \in 1..Len(th.judged) :
                       /\ th.judged[m].pair[1] # th.judged[m].pair[2]
                       /\ th.judged[m].pair[1] \in active
                       /\ th.judged[m].pair[2] \in active
                /\ \A i, j \in 1..Len(store.hypotheses) :
                       Cardinality(JudgmentsOf(th, i, j)) <= 1
                /\ Len(tr) = Len(DecidedPairs(th))
                /\ Len(db_tournament_results[store.session_id]) = Len(DecidedPairs(th))
                /\ \A m \in 1..Len(tr) :
                       /\ tr[m].hypothesis1_id # tr[m].hypothesis2_id
                       /\ {tr[m].hypothesis1_id, tr[m].hypothesis2_id}
                              \subseteq ActiveIds(store)
                /\ th.pc # "ranking" =>
                       /\ 2 * Len(th.judged) = n * (n - 1)
                       /\ \A i, j \in active :
                              i # j => Cardinality(JudgmentsOf(th, i, j)) = 1

\* a stage over a store with an inactive hypothesis has ended, with a
\* decided judgment and its match record
C24_Witness ==
    /\ threads[1].pc = NextStage("ranking")
    /\ Cardinality(ActiveIds(stores[1])) < Len(stores[1].hypotheses)
    /\ \E m \in 1..Len(threads[1].judged) : threads[1].judged[m].decision # "none"
    /\ Len(stores[1].tournament_results) >= 1

\* C25: the id generate_unique_id supplies for the offspring of an
\* evolution stage is the id of no hypothesis of the store: the stage adds
\* the offspring under an id the store did not hold, the hypotheses of the
\* store stay as they were, the store grows by one entry, and the cycle
\* does not end in an error.
C25_IdsUnique ==
    [][\A t \in Threads :
           LET h == threads[t].store
               pool == select_parents(stores[h], threads[t].goal.top_k_hypotheses)
           IN  (threads[t].pc = "evolution" /\ Len(pool) >= 2) =>
                   /\ AddsHypothesis(h)
                   /\ Added(h).hypothesis_id \notin HypothesisIds(stores[h])
                   /\ SubSeq(stores'[h].hypotheses, 1, Len(stores[h].hypotheses))
                          = stores[h].hypotheses
                   /\ ~threads'[t].response.error
      ]_vars

\* how often a text was encoded in the calls from the c-th on
RECURSIVE EncodeCount(_, _, _)
EncodeCount(calls, text, c) ==
    IF c > Len(calls) THEN 0
    ELSE Cardinality({e \in 1..Len(calls[c].encoded) : calls[c].encoded[e] = text})
             + EncodeCount(calls, text, c + 1)

\* C26: in one proximity computation the embedding collaborator encodes
\* every distinct text at most once, in however many pairs the text is.
C26_EmbeddingMemoized ==
    \A t \in Threads : \A m \in ProximitySteps(threads[t]) :
        \A text \in ProximityTexts :
            EncodeCount(threads[t].steps[m].payload.calls, text, 1) <= 1

\* the thread has made its call_llm call
Called(th) == th.llm_call # NoCall /\ th.pc = "idle"

\* the attempts of a call before its first successful one, all of them when
\* none is successful
FailedAttempts(outcomes) ==
    {a \in 1..Len(outcomes) : \A b \in 1..a : outcomes[b] # "choice"}

\* C27: call_llm never raises; it makes at most max_retries attempts, none
\* after the first successful one, whose content it returns; every sleep
\* follows a failed attempt that is not the last one of the call and lasts
\* initial_retry_delay * 2^attempt; it makes no attempt when the model or
\* the API key is not configured; and whenever no attempt was successful it
\* returns a string that begins with "Error:".
C27_CallLLMReturns ==
    \A t \in Threads :
        Called(threads[t]) =>
            LET call == threads[t].llm_call
                run == call.run
                failed == FailedAttempts(call.outcomes)
            IN  /\ ~run.raised
                /\ run.attempts <= max_retries
                /\ run.success =>
                       /\ run.attempts = Cardinality(failed) + 1
                       /\ call.outcomes[run.attempts] = "choice"
                       /\ run.returned = <<"response_content">>
                /\ \A s \in 1..Len(run.sleeps) :
                       /\ run.sleeps[s].after + 1 \in failed
                       /\ run.sleeps[s].after + 1 < run.attempts
                       /\ run.sleeps[s].wait
                              = initial_retry_delay * Pow2(run.sleeps[s].after)
                /\ (call.setting.llm_model = "missing" \/ call.setting.api_key # "set") =>
                       run.attempts = 0
                /\ ~run.success =>
                       Len(run.returned) = 2 /\ run.returned[1] = "Error: "

\* the active hypotheses of a store that have parents
Offspring(store) ==
    {hyp \in SeqToSet(get_active_hypotheses(store)) : hyp.parent_ids # <<>>}

\* the match records a step has appended to store h
NewRecords(h) ==
    SubSeq(stores'[h].tournament_results, Len(stores[h].tournament_results) + 1,
           Len(stores'[h].tournament_results))

\* the stage of thread t goes through in this step: no call failed and the
\* cycle goes on
Proceeds(t) ==
    /\ Running(t)
    /\ threads'[t].failed = threads[t].failed
    /\ ~threads'[t].response.error
    /\ Len(threads'[t].steps) = Len(threads[t].steps) + 1

\* C28: what a stage wrote is in the store the later stages of the cycle
\* read: no stage loses a hypothesis or its activity; the evolution stage
\* finds every hypothesis with the rating its latest match left it and takes
\* its parents from those ratings; the final ranking judges every pair of
\* the active hypotheses it finds, the offspring among them; and the
\* adjacency structure of the proximity stage is over all of them.
C28_StagesSeeWrites ==
    [][\A t \in Threads :
           LET th == threads[t]
               h == th.store
               store == stores[h]
               tr == store.tournament_results
               ids == ActiveIds(store)
           IN  Proceeds(t) =>
                   /\ \A i \in 1..Len(store.hypotheses) :
                          /\ stores'[h].hypotheses[i].hypothesis_id
                                 = store.hypotheses[i].hypothesis_id
                          /\ stores'[h].hypotheses[i].is_active
                                 = store.hypotheses[i].is_active
                   /\ (th.pc = "evolution" /\ AddsHypothesis(h)) =>
                          /\ \A i \in 1..Len(store.hypotheses) :
                                 store.hypotheses[i].elo_score
                                     = RatingAfter(tr, store.hypotheses[i].hypothesis_id,
                                                   Len(tr))
                          /\ Added(h).parent_ids
                                 = IdsOf(select_parents(store, th.goal.top_k_hypotheses))
                          /\ Added(h) \in Offspring(stores'[h])
                   /\ th.pc = "ranking_final" =>
                          /\ 2 * Len(NewRecords(h)) = Cardinality(ids) * (Cardinality(ids) - 1)
                          /\ \A a, b \in ids :
                                 a # b =>
                                     \E m \in 1..Len(NewRecords(h)) :
                                         {NewRecords(h)[m].hypothesis1_id,
                                          NewRecords(h)[m].hypothesis2_id} = {a, b}
                   /\ th.pc = "proximity" =>
                          LET g == threads'[t].steps[Len(threads'[t].steps)].payload.adjacency_graph
                          IN  /\ DOMAIN g = ids
                              /\ \A a \in ids : Len(g[a]) = Cardinality(ids) - 1
      ]_vars

\* a cycle is past its proximity stage: the offspring its evolution stage
\* added, whose parents have a match record from before, has match records
\* of its own, and is in the adjacency structure
C28_Witness ==
    \E t \in Threads :
        LET th == threads[t]
            store == stores[th.store]
            tr == store.tournament_results
        IN  /\ th.pc = "meta_review"
            /\ \E hyp \in Offspring(store) :
                   /\ RecordsOf(tr, hyp.hypothesis_id, Len(tr)) # {}
                   /\ \E m \in 1..Len(tr) :
                          hyp.parent_ids[1] \in {tr[m].hypothesis1_id, tr[m].hypothesis2_id}
                   /\ \E m \in ProximitySteps(th) :
                          hyp.hypothesis_id \in DOMAIN th.steps[m].payload.adjacency_graph

\* the sum of the elo_scores of the hypotheses from the i-th on
RECURSIVE EloSum(_, _)
EloSum(hyps, i) ==
    IF i > Len(hyps) THEN 0 ELSE hyps[i].elo_score + EloSum(hyps, i + 1)

\* the distance of two numbers
Distance(a, b) == IF a >= b THEN a - b ELSE b - a

\* C29: rating mass is conserved: every match record moves its two ratings
\* in opposite directions by amounts that differ by rounding at most, and
\* in every store the elo_scores of all hypotheses add up to 1200 for each
\* hypothesis, but for the rounding of the matches played (one unit of
\* 1/EloScale point for either side of a match).
C29_RatingMassConserved ==
    \A h \in Handles :
        stores[h] # NoStore =>
            LET store == stores[h]
                tr == store.tournament_results
            IN  /\ \A m \in 1..Len(tr) :
                       Distance(tr[m].new_elo1 - tr[m].old_elo1,
                                tr[m].old_elo2 - tr[m].new_elo2) <= 2
                /\ Distance(EloSum(store.hypotheses, 1),
                            InitialElo * Len(store.hypotheses)) <= 2 * Len(tr)

\* a store after two cycles: an offspring beside its parents, matches
\* played, a hypothesis above and one below 1200
C29_Witness ==
    \E h \in Sessions :
        /\ stores[h] # NoStore
        /\ Len(stores[h].tournament_results) >= 2
        /\ Offspring(stores[h]) # {}
        /\ \E i, j \in 1..Len(stores[h].hypotheses) :
               /\ stores[h].hypotheses[i].elo_score > InitialElo
               /\ stores[h].hypotheses[j].elo_score < InitialElo

\* the meta-review records a step has appended to store h
NewReviews(h) ==
    SubSeq(stores'[h].meta_review_feedback, Len(stores[h].meta_review_feedback) + 1,
           Len(stores'[h].meta_review_feedback))

\* C30: every match record and every meta-review record a stage of a cycle
\* appends carries the iteration_number the store has at the append, and
\* that value is the iteration of the cycle, the one its report returns; so
\* all records of one cycle carry the same value.
C30_RecordsCarryIteration ==
    [][\A t \in Threads :
           LET h == threads[t].store
               matches == NewRecords(h)
               reviews == NewReviews(h)
           IN  Running(t) =>
                   /\ \A m \in 1..Len(matches) :
                          /\ matches[m].iteration = stores[h].iteration_number
                          /\ matches[m].iteration = threads[t].iteration
                   /\ \A m \in 1..Len(reviews) :
                          /\ reviews[m].iteration = stores[h].iteration_number
                          /\ reviews[m].iteration = threads[t].iteration
      ]_vars

=============================================================================
